---- MODULE Spec2Model ----
(***************************************************************************)
(* Retrieval pipeline of SmartPDFReader: the in-memory VectorStore         *)
(* (passage index), the EmbeddingService ranking functions and the         *)
(* RAGService ingestion / query orchestration.                             *)
(*                                                                         *)
(* JavaScript runs the code single-threaded: a handler runs without        *)
(* interruption up to its next `await`.  Every action below is one such    *)
(* run-to-await segment.                                                   *)
(***************************************************************************)
EXTENDS Integers, Sequences, FiniteSets, TLC

(***************************************************************************)
(* Bounds of the model.                                                    *)
(***************************************************************************)
NumDocs == 2          \* documents of a session: ids 1..NumDocs
MaxPdfIds == 2        \* longest pdfIds argument of a search / query
MaxTopK == 2          \* largest topK argument of a direct search
MaxListLen == 2       \* cap on a document's chunk-id list under direct addChunks
MaxQuestions == 2     \* most sub-questions of a question text
MaxSentences == 3     \* most sentences of a page chunked
MaxPages == 2         \* most pages of a document chunked
MaxChunkCalls == 2    \* chunkPDF calls on one extracted document
MaxDimension == 2     \* most coordinates of a vector given to calculateSimilarity
MaxCoordinate == 1    \* largest absolute value of such a coordinate
MaxEmbedChunks == 201 \* longest list of chunks given to an embedding call
DebounceTicks == 2    \* ticks of the clock in the 1000 ms of the debounce delay

(***************************************************************************)
(* Program constants.                                                      *)
(***************************************************************************)
EmbedBatchSize == 10  \* generateEmbeddingsInBatches(..., batchSize = 10)
PdfBatchSize == 3     \* processMultiplePDFs: const batchSize = 3
maxChunks == 5        \* RAGConfig.maxChunks as the chat component sets it

VARIABLES
    chunkCount,       \* per document: number of chunks TextChunker.chunkPDF yields
    embeddedChunks,   \* VectorStore.embeddedChunks : Map<chunkId, EmbeddedChunk>
    pdfChunks,        \* VectorStore.pdfChunks      : Map<pdfId, chunkId[]>
    srch,             \* one direct VectorStore.search call and its outcome
    qry,              \* one RAGService.query call, its progress and its outcome
    extractedPDFs,    \* RAGService.extractedPDFs : Map<pdfId, ExtractedPDF> (its keys)
    calls,            \* the processMultiplePDFs calls: position, per-document promise
    ingested,         \* history: documents a processPDF has indexed since their
                      \* last removal
    chunker,          \* one TextChunker.chunkPDF call: its input, its loop
                      \* variables and the chunks it has pushed
    sim,              \* two vectors and what calculateSimilarity made of them,
                      \* in both orders
    emb,              \* one generateEmbeddings / generateEmbeddingsInBatches
                      \* call: its arguments, loop variables, requests, outcome
    chat,             \* ChatWithPDF: the send handler's position, the messages
                      \* it appended, isProcessing, isProcessingPDFs
    snap              \* the object the last VectorStore.exportData returned,
                      \* as it is now, and what it held when it was returned

storeVars == <<embeddedChunks, pdfChunks>>

\* the documents of the session
Docs == DOMAIN chunkCount
ragVars == <<extractedPDFs, calls, ingested>>

\* the pipeline: documents, index, readers, ingestion
pipelineVars == <<chunkCount, storeVars, srch, qry, ragVars>>

\* the units exercised on their own, outside the pipeline
unitVars == <<chunker, sim, emb>>
vars == <<chunkCount, embeddedChunks, pdfChunks, srch, qry, extractedPDFs,
          calls, ingested, chunker, sim, emb, chat, snap>>

(***************************************************************************)
(* Sequence helpers (Array.prototype counterparts).                        *)
(***************************************************************************)
Range(s) == {s[i] : i \in 1..Len(s)}

Min(a, b) == IF a < b THEN a ELSE b

\* Array.prototype.slice(0, n) for n >= 0
Slice0(s, n) == SubSeq(s, 1, Min(n, Len(s)))

RECURSIVE Concat(_)
\* flattening of a sequence of sequences, in order
Concat(ss) == IF ss = <<>> THEN <<>> ELSE Head(ss) \o Concat(Tail(ss))

(***************************************************************************)
(* Embeddings.  The remote model maps a text to a fixed-length vector; the *)
(* model keeps two dimensions and small integer coordinates.               *)
(***************************************************************************)
EmbVecs == << <<1, 0>>, <<0, 1>>, <<1, 1>>, <<0, 0>> >>

QueryVecs == { <<1, 0>>, <<0, 1>>, <<1, 1>> }

\* the vector the embedding service returns for chunk k of document d
EmbeddingOf(d, k) == EmbVecs[((d + k) % Len(EmbVecs)) + 1]

\* chunk id `${pdfId}-page${N}-chunk${K}` (page and index folded into k)
ChunkId(d, k) == <<d, k>>

\* EmbeddedChunk: TextChunk plus its vector
EmbeddedChunk(d, k) ==
    [id |-> ChunkId(d, k), pdfId |-> d, embedding |-> EmbeddingOf(d, k)]

\* the embedded chunks of document d, in chunking order
ChunksOf(d) == [i \in 1..chunkCount[d] |-> EmbeddedChunk(d, i - 1)]

(***************************************************************************)
(* EmbeddingService.calculateSimilarity.                                   *)
(* cos = dot / (sqrt(norm1) * sqrt(norm2)) is irrational in general; the   *)
(* model carries the exact value sgn(cos) * cos^2 as a fraction num/den    *)
(* (den > 0).  x |-> sgn(x) * x^2 is strictly increasing, so every         *)
(* comparison of two similarities is preserved.                            *)
(***************************************************************************)
RECURSIVE DotFrom(_, _, _)
DotFrom(a, b, i) ==
    IF i > Len(a) THEN 0 ELSE a[i] * b[i] + DotFrom(a, b, i + 1)

Sgn(x) == IF x > 0 THEN 1 ELSE IF x < 0 THEN -1 ELSE 0

DimensionMismatch == [num |-> 0, den |-> 0]   \* stands for the thrown Error

\* calculateSimilarity without the test for a zero magnitude
calculateSimilarity_DividesByZero(embedding1, embedding2) ==
    IF Len(embedding1) # Len(embedding2) THEN DimensionMismatch
    ELSE [num |-> Sgn(DotFrom(embedding1, embedding2, 1))
                     * DotFrom(embedding1, embedding2, 1)
                     * DotFrom(embedding1, embedding2, 1),
          den |-> DotFrom(embedding1, embedding1, 1)
                     * DotFrom(embedding2, embedding2, 1)]

calculateSimilarity(embedding1, embedding2) ==
    IF Len(embedding1) # Len(embedding2) THEN DimensionMismatch
    ELSE LET dotProduct == DotFrom(embedding1, embedding2, 1)
             norm1 == DotFrom(embedding1, embedding1, 1)
             norm2 == DotFrom(embedding2, embedding2, 1)
         IN  IF norm1 * norm2 = 0 THEN [num |-> 0, den |-> 1]
             ELSE [num |-> Sgn(dotProduct) * dotProduct * dotProduct,
                   den |-> norm1 * norm2]

SimLess(x, y) == x.num * y.den < y.num * x.den
SimEq(x, y) == x.num * y.den = y.num * x.den

(***************************************************************************)
(* EmbeddingService.findSimilarChunks: map, sort by (b.similarity -       *)
(* a.similarity), slice(0, topK).  Array.prototype.sort is stable.         *)
(***************************************************************************)
\* a sort that is not stable: x goes in front of the elements it ties with
RECURSIVE InsertSorted_BeforeTies(_, _)
InsertSorted_BeforeTies(x, s) ==
    IF s = <<>> THEN <<x>>
    ELSE IF ~SimLess(x.similarity, Head(s).similarity) THEN <<x>> \o s
    ELSE <<Head(s)>> \o InsertSorted_BeforeTies(x, Tail(s))

\* insert x behind every element that does not rank strictly below it
RECURSIVE InsertSorted(_, _)
InsertSorted(x, s) ==
    IF s = <<>> THEN <<x>>
    ELSE IF SimLess(Head(s).similarity, x.similarity) THEN <<x>> \o s
    ELSE <<Head(s)>> \o InsertSorted(x, Tail(s))

RECURSIVE SortFrom(_, _, _)
SortFrom(s, i, acc) ==
    IF i > Len(s) THEN acc ELSE SortFrom(s, i + 1, InsertSorted(s[i], acc))

\* stable sort, descending by similarity
SortBySimilarity(s) == SortFrom(s, 1, <<>>)

findSimilarChunks(queryEmbedding, chunks, topK) ==
    LET similarities ==
            [i \in 1..Len(chunks) |->
                [chunk |-> chunks[i],
                 similarity |-> calculateSimilarity(queryEmbedding,
                                                    chunks[i].embedding)]]
    IN  Slice0(SortBySimilarity(similarities), topK)

(***************************************************************************)
(* VectorStore.                                                            *)
(***************************************************************************)
\* Map.delete(key)
MapDelete(m, k) == [x \in DOMAIN m \ {k} |-> m[x]]

EmptyMap == [x \in {} |-> x]

\* embeddedChunks is kept as the sequence of its values in the Map's iteration
\* order (first insertion of the key); the key of a value is its id
KeysOf(chunkMap) == {chunkMap[i].id : i \in 1..Len(chunkMap)}

\* what Map.get answers for a key the Map does not have
Undefined == [id |-> <<0, 0>>, pdfId |-> 0, embedding |-> <<>>]

\* Map.get(id)
ChunkAt(chunkMap, id) ==
    IF \E i \in 1..Len(chunkMap) : chunkMap[i].id = id
    THEN chunkMap[CHOOSE i \in 1..Len(chunkMap) : chunkMap[i].id = id]
    ELSE Undefined

\* embeddedChunks after addChunks' forEach has set every chunk under its id:
\* a key the Map has keeps its place and takes the last value set, a new key
\* is appended where it is first set
ChunkMapAfterAdd(chunkMap, chunks) ==
    LET LastSet(id) ==
            chunks[CHOOSE j \in 1..Len(chunks) :
                      /\ chunks[j].id = id
                      /\ \A l \in (j + 1)..Len(chunks) : chunks[l].id # id]
        IsSet(id) == \E j \in 1..Len(chunks) : chunks[j].id = id
        FirstSet(j) == \A l \in 1..(j - 1) : chunks[l].id # chunks[j].id
        newKeys == SelectSeq([j \in 1..Len(chunks) |-> j],
                       LAMBDA j : FirstSet(j) /\ chunks[j].id \notin KeysOf(chunkMap))
    IN  [i \in 1..Len(chunkMap) |->
            IF IsSet(chunkMap[i].id) THEN LastSet(chunkMap[i].id) ELSE chunkMap[i]]
        \o [n \in 1..Len(newKeys) |-> LastSet(chunks[newKeys[n]].id)]

\* pdfChunks after addChunks' forEach: every chunk's id is pushed on the list of
\* its document, the list being created on the first push
PdfChunksAfterAdd(lists, chunks) ==
    LET pushed(pdfId) == SelectSeq(chunks, LAMBDA c : c.pdfId = pdfId)
    IN  [pdfId \in DOMAIN lists \cup {chunks[j].pdfId : j \in 1..Len(chunks)} |->
            (IF pdfId \in DOMAIN lists THEN lists[pdfId] ELSE <<>>)
            \o [n \in 1..Len(pushed(pdfId)) |-> pushed(pdfId)[n].id]]

\* the store after VectorStore.addChunks(chunks)
StoreAfterAdd(store, chunks) ==
    <<ChunkMapAfterAdd(store[1], chunks), PdfChunksAfterAdd(store[2], chunks)>>

\* a removePDF that drops the document's list and leaves its passages
StoreAfterRemove_KeepsPassages(store, pdfId) ==
    <<store[1], MapDelete(store[2], pdfId)>>

\* the store after VectorStore.removePDF(pdfId)
StoreAfterRemove(store, pdfId) ==
    LET chunkIds == IF pdfId \in DOMAIN store[2] THEN store[2][pdfId] ELSE <<>>
    IN  <<SelectSeq(store[1], LAMBDA c : c.id \notin Range(chunkIds)),
          MapDelete(store[2], pdfId)>>

\* a getChunksForPDFs that forgets the scope and gathers every document
ChunksForPDFs_AllDocs(store, pdfIds) == store[1]

\* VectorStore.getChunksForPDFs on a given store: document by document in the
\* order of pdfIds, the document's chunk-id list in its order, every id the
\* passage map has
ChunksForPDFs(store, pdfIds) ==
    Concat([i \in 1..Len(pdfIds) |->
        LET chunkIds == IF pdfIds[i] \in DOMAIN store[2]
                        THEN store[2][pdfIds[i]] ELSE <<>>
        IN  SelectSeq([j \in 1..Len(chunkIds) |-> ChunkAt(store[1], chunkIds[j])],
                      LAMBDA chunk : chunk # Undefined)])

getChunksForPDFs(pdfIds) == ChunksForPDFs(<<embeddedChunks, pdfChunks>>, pdfIds)

\* what search returns once the query embedding is there
SearchResults(queryEmbedding, pdfIds, topK) ==
    LET relevantChunks == getChunksForPDFs(pdfIds)
    IN  IF Len(relevantChunks) = 0 THEN <<>>
        ELSE findSimilarChunks(queryEmbedding, relevantChunks, topK)

\* VectorStore.getStats
getStats ==
    [totalChunks |-> Cardinality(KeysOf(embeddedChunks)),
     totalPDFs |-> Cardinality(DOMAIN pdfChunks),
     chunksPerPDF |-> [d \in DOMAIN pdfChunks |-> Len(pdfChunks[d])]]

(***************************************************************************)
(* Arguments of a search: a list of distinct document ids, in any order.   *)
(***************************************************************************)
PdfIdLists ==
    UNION {{s \in [1..n -> Docs] : \A i, j \in 1..n : i # j => s[i] # s[j]}
           : n \in 0..MaxPdfIds}

IdleSearch == [pc |-> "idle", query |-> <<>>, pdfIds |-> <<>>, topK |-> 0,
               result |-> <<>>]

(***************************************************************************)
(* Question texts and RAGService.detectMultipleQuestions.  A text is the   *)
(* sequence of its characters.                                             *)
(***************************************************************************)
Uppercase == {"A", "I", "T", "W", "X", "Y", "Z"}   \* [A-Z], of the characters used

IsSpace(c) == c \in {" ", "\n"}                    \* \s

SetMin(S) == CHOOSE x \in S : \A y \in S : x <= y
SetMax(S) == CHOOSE x \in S : \A y \in S : x >= y

\* String.prototype.trim
RECURSIVE FirstNonSpace(_, _)
FirstNonSpace(t, i) ==
    IF i <= Len(t) /\ IsSpace(t[i]) THEN FirstNonSpace(t, i + 1) ELSE i

RECURSIVE LastNonSpace(_, _)
LastNonSpace(t, i) ==
    IF i >= 1 /\ IsSpace(t[i]) THEN LastNonSpace(t, i - 1) ELSE i

Trim(t) == SubSeq(t, FirstNonSpace(t, 1), LastNonSpace(t, Len(t)))

\* last position of the run of whitespace that starts at i (i - 1: no run)
WsRunEnd(t, i) ==
    SetMax({k \in (i - 1)..Len(t) : \A j \in i..k : IsSpace(t[j])})

\* the last newline among positions i..e, 0 if there is none
LastNewline(t, i, e) ==
    LET newlines == {j \in i..e : t[j] = "\n"}
    IN  IF newlines = {} THEN 0 ELSE SetMax(newlines)

\* where the match of a separator that starts at position i ends, 0 if it does
\* not match there.  Separators 1..4 are the regular expressions of
\* detectMultipleQuestions in their order, 5 is /\?/:
\*   1  /\n\s*\n/       2  /\.\s+(?=[A-Z])/
\*   3  /\?\s+(?=[A-Z])/   4  /\?\s*\n/
SeparatorEnd(k, t, i) ==
    LET e == WsRunEnd(t, i + 1)
    IN  CASE k = 1 -> IF t[i] = "\n" THEN LastNewline(t, i + 1, e) ELSE 0
          [] k \in {2, 3} ->
                IF /\ t[i] = (IF k = 2 THEN "." ELSE "?")
                   /\ e > i /\ e < Len(t) /\ t[e + 1] \in Uppercase
                THEN e ELSE 0
          [] k = 4 -> IF t[i] = "?" THEN LastNewline(t, i + 1, e) ELSE 0
          [] OTHER -> IF t[i] = "?" THEN i ELSE 0

\* String.prototype.split(separator), from position p on
RECURSIVE SplitFrom(_, _, _)
SplitFrom(t, k, p) ==
    LET starts == {i \in p..Len(t) : SeparatorEnd(k, t, i) > 0}
    IN  IF starts = {} THEN <<SubSeq(t, p, Len(t))>>
        ELSE <<SubSeq(t, p, SetMin(starts) - 1)>>
             \o SplitFrom(t, k, SeparatorEnd(k, t, SetMin(starts)) + 1)

\* the loop over the separators: the first one that splits the text decides
RECURSIVE SplitBySeparators(_, _)
SplitBySeparators(t, k) ==
    IF k > 4 THEN <<t>>
    ELSE IF Len(SplitFrom(t, k, 1)) > 1
    THEN SelectSeq([i \in 1..Len(SplitFrom(t, k, 1)) |->
                       Trim(SplitFrom(t, k, 1)[i])],
                   LAMBDA q : Len(q) > 0)
    ELSE SplitBySeparators(t, k + 1)

detectMultipleQuestions(text) ==
    LET questions == SplitBySeparators(Trim(text), 1)
        questionMarks == Cardinality({i \in 1..Len(text) : text[i] = "?"})
        parts == SplitFrom(text, 5, 1)
        rebuilt == SelectSeq([i \in 1..(Len(parts) - 1) |->
                                 Trim(parts[i] \o <<"?">>)],
                             LAMBDA q : Len(q) > 10)
        found == IF Len(questions) = 1 /\ questionMarks > 1 THEN rebuilt
                 ELSE questions
    IN  SelectSeq(found, LAMBDA q : Len(q) > 5)

\* the questions query works on: the sub-questions if there are several,
\* else the text as it came
QueryQuestions(text) ==
    IF Len(detectMultipleQuestions(text)) > 1
    THEN detectMultipleQuestions(text) ELSE <<text>>

\* the texts asked: "What is X?" about one of three topics, 1..MaxQuestions
\* of them in a row separated by a space, and two texts that take other
\* ways through detectMultipleQuestions
Topics == <<"X", "Y", "Z">>

WhatIs(topic) == <<"W", "h", "a", "t", " ", "i", "s", " ", topic>>

RECURSIVE Asking(_, _)
Asking(n, first) ==
    WhatIs(Topics[(first % Len(Topics)) + 1]) \o <<"?">>
    \o (IF n = 1 THEN <<>> ELSE <<" ">> \o Asking(n - 1, first + 1))

QuestionTexts ==
    {Asking(n, first) : n \in 1..MaxQuestions, first \in 1..Len(Topics)}
    \cup {WhatIs("X") \o <<"?">> \o WhatIs("Y") \o <<"?">>,
          WhatIs("Z") \o <<".", "\n", "\n">> \o WhatIs("Y") \o <<"?", "\n">>}

\* the vector the embedding service answers for a question: the texts differ
\* by their topics, the vector is that of the first topic named
QuestionVecs == << <<1, 0>>, <<0, 1>>, <<1, 1>> >>

EmbeddingOfText(t) ==
    LET named == {i \in 1..Len(t) : t[i] \in Range(Topics)}
        topic == IF named = {} THEN Len(Topics)
                 ELSE CHOOSE k \in 1..Len(Topics) : Topics[k] = t[SetMin(named)]
    IN  QuestionVecs[topic]

IdleQuery == [pc |-> "idle", text |-> <<>>, questions |-> <<>>,
              pdfIds |-> <<>>, i |-> 1,
              found |-> <<>>, answers |-> <<>>, sources |-> <<>>,
              chunksUsed |-> 0]

QueryInFlight == qry.pc \in {"searching", "completing"}

\* srch and qry record a call while it is in flight and its outcome until the
\* next operation on the store: by then the caller has consumed it.  Both only
\* read the store; the model follows one of them at a time, from a state in
\* which no outcome is waiting.
SearchSlotAfterOp == IF srch.pc = "embedding" THEN srch ELSE IdleSearch
QuerySlotAfterOp == IF QueryInFlight THEN qry ELSE IdleQuery
NoReader == srch.pc = "idle" /\ qry.pc = "idle"

(***************************************************************************)
(* VectorStore.exportData / importData.  The object exportData returns     *)
(* holds a new array of the passages and, under every document id, the     *)
(* very array that pdfChunks holds for it: snap.shared are the documents   *)
(* whose array the store and the object still share.  snap.exported is     *)
(* history: what the object held when exportData returned it.              *)
(***************************************************************************)
\* { embeddedChunks: Array.from(values()), pdfChunks: { pdfId: chunkIds } }
ExportedData(store) == [embeddedChunks |-> store[1], pdfChunks |-> store[2]]

\* the store after importData(data): clear(), every chunk set under its id
\* in array order, every list set under its document
StoreAfterImport(data) ==
    <<ChunkMapAfterAdd(<<>>, data.embeddedChunks), data.pdfChunks>>

\* VectorStore.getStats of a given store
StatsOf(store) ==
    [totalChunks |-> Cardinality(KeysOf(store[1])),
     totalPDFs |-> Cardinality(DOMAIN store[2]),
     chunksPerPDF |-> [d \in DOMAIN store[2] |-> Len(store[2][d])]]

\* VectorStore.search of a given store, behind the query's embedding
SearchIn(store, queryEmbedding, pdfIds, topK) ==
    LET relevantChunks == ChunksForPDFs(store, pdfIds)
    IN  IF Len(relevantChunks) = 0 THEN <<>>
        ELSE findSimilarChunks(queryEmbedding, relevantChunks, topK)

NoSnapshot ==
    [taken |-> FALSE, data |-> ExportedData(<<<<>>, EmptyMap>>), shared |-> {},
     exported |-> ExportedData(<<<<>>, EmptyMap>>)]

\* the object after the store has pushed ids: an array the two share has
\* grown in both
SnapAfterAdd(s, lists) ==
    [s EXCEPT !.data.pdfChunks =
        [d \in DOMAIN @ |-> IF d \in s.shared THEN lists[d] ELSE @[d]]]

\* the object after pdfChunks.delete(pdfId): the array is the object's alone
SnapAfterRemove(s, pdfId) == [s EXCEPT !.shared = @ \ {pdfId}]

(***************************************************************************)
(* Actions of the VectorStore used on its own.                             *)
(***************************************************************************)
\* addChunks(chunks) with chunks = chunks a..b of document d
addChunks(d, a, b) ==
    /\ a \in 1..chunkCount[d] /\ b \in a..chunkCount[d]
    /\ (IF d \in DOMAIN pdfChunks THEN Len(pdfChunks[d]) ELSE 0) + (b - a + 1)
          <= MaxListLen
    /\ \E chunks \in {SubSeq(ChunksOf(d), a, b)} :
       \E after \in {StoreAfterAdd(<<embeddedChunks, pdfChunks>>, chunks)} :
          /\ embeddedChunks' = after[1]
          /\ pdfChunks' = after[2]
          /\ snap' = SnapAfterAdd(snap, after[2])
    /\ srch' = SearchSlotAfterOp
    /\ qry' = QuerySlotAfterOp
    /\ UNCHANGED <<unitVars, chat, chunkCount, ragVars>>

\* VectorStore.removePDF(d)
removePDF(d) ==
    /\ \E after \in {StoreAfterRemove(<<embeddedChunks, pdfChunks>>, d)} :
          /\ embeddedChunks' = after[1]
          /\ pdfChunks' = after[2]
    /\ snap' = SnapAfterRemove(snap, d)
    /\ srch' = SearchSlotAfterOp
    /\ qry' = QuerySlotAfterOp
    /\ UNCHANGED <<unitVars, chat, chunkCount, ragVars>>

\* VectorStore.clear()
clear ==
    /\ embeddedChunks' = <<>>
    /\ pdfChunks' = EmptyMap
    /\ snap' = [snap EXCEPT !.shared = {}]
    /\ srch' = SearchSlotAfterOp
    /\ qry' = QuerySlotAfterOp
    /\ UNCHANGED <<unitVars, chat, chunkCount, ragVars>>

\* VectorStore.exportData()
exportData ==
    /\ \E data \in {ExportedData(<<embeddedChunks, pdfChunks>>)} :
          snap' = [taken |-> TRUE, data |-> data, shared |-> DOMAIN pdfChunks,
                   exported |-> data]
    /\ UNCHANGED <<unitVars, chat, chunkCount, storeVars, srch, qry, ragVars>>

\* VectorStore.importData(data) with the object of the last exportData, as it
\* is now: the store holds the object's arrays
importData ==
    /\ snap.taken
    /\ \E after \in {StoreAfterImport(snap.data)} :
          /\ embeddedChunks' = after[1]
          /\ pdfChunks' = after[2]
    /\ snap' = [snap EXCEPT !.shared = DOMAIN snap.data.pdfChunks]
    /\ srch' = SearchSlotAfterOp
    /\ qry' = QuerySlotAfterOp
    /\ UNCHANGED <<unitVars, chat, chunkCount, ragVars>>

\* search(query, pdfIds, topK) up to `await generateEmbedding(query)`
searchCall(q, pdfIds, topK) ==
    /\ srch.pc = "idle"
    /\ srch' = [pc |-> "embedding", query |-> q, pdfIds |-> pdfIds,
                topK |-> topK, result |-> <<>>]
    /\ UNCHANGED <<unitVars, snap, chat, chunkCount, embeddedChunks, pdfChunks, qry, ragVars>>

\* the query embedding arrives: gather, rank, return
searchReturn ==
    /\ srch.pc = "embedding"
    /\ srch' = [srch EXCEPT !.pc = "returned",
                            !.result = SearchResults(srch.query, srch.pdfIds,
                                                     srch.topK)]
    /\ UNCHANGED <<unitVars, snap, chat, chunkCount, embeddedChunks, pdfChunks, qry, ragVars>>

\* generateEmbedding throws (non-2xx answer, network error): search rejects
searchEmbeddingFails ==
    /\ srch.pc = "embedding"
    /\ srch' = [srch EXCEPT !.pc = "rejected"]
    /\ UNCHANGED <<unitVars, snap, chat, chunkCount, embeddedChunks, pdfChunks, qry, ragVars>>

(***************************************************************************)
(* RAGService.query and processMultipleQuestions.                          *)
(*   pc "searching"   awaiting vectorStore.search for question i           *)
(*      "completing"  awaiting generateResponse for question i             *)
(*      "answered"    the promise resolved with answers/sources/chunksUsed *)
(*      "rejected"    the promise rejected                                 *)
(***************************************************************************)
\* Math.floor(a / b) in its place
CeilDiv_Floor(a, b) == a \div b

\* Math.ceil(a / b)
CeilDiv(a, b) == (a + b - 1) \div b

\* topK of the search for one of n questions
QueryTopK(n) == IF n > 1 THEN CeilDiv(maxChunks, n) ELSE maxChunks

\* a source that names the document of the best passage in the index
Source_OfFirstDocument(result) ==
    [pdfId |-> Head(embeddedChunks).pdfId, chunk |-> result.chunk.id,
     similarity |-> result.similarity]

\* a source of the answer: pdfName, pageNumber and text of the chunk (here
\* its document and id) and the similarity
Source(result) ==
    [pdfId |-> result.chunk.pdfId, chunk |-> result.chunk.id,
     similarity |-> result.similarity]

\* the single-question answer without search results, with its debug info
NoInfoAnswer(pdfIds) ==
    [kind |-> "noInfoDebug", requested |-> pdfIds,
     processed |-> DOMAIN getStats.chunksPerPDF,
     totalChunks |-> getStats.totalChunks]

\* processMultipleQuestions: the section pushed for question i, "**Question
\* i:** question ... **Answer:** ..." with the answer of its outcome
Section(q, kind) ==
    [kind |-> kind, label |-> q.i, question |-> q.questions[q.i]]

\* the catch of processMultipleQuestions pushes the apology section
CaughtSection_Dropped(q) == q.answers

CaughtSection(q) == Append(q.answers, Section(q, "error"))

\* processMultipleQuestions: the answer of question i is pushed; on to the
\* next question, or return behind the last one
NextQuestion(q) ==
    IF q.i < Len(q.questions)
    THEN [q EXCEPT !.pc = "searching", !.i = q.i + 1, !.found = <<>>]
    ELSE [q EXCEPT !.pc = "answered", !.found = <<>>]

\* query(question, pdfIds) up to the first `await vectorStore.search`
\* the call in flight that query(text, pdfIds) leaves at its first await
StartedQuery(text, pdfIds) ==
    [IdleQuery EXCEPT !.pc = "searching", !.text = text,
                      !.questions = QueryQuestions(text), !.pdfIds = pdfIds]

\* a query that marks the documents it is asked about as processed
queryCall_MarksProcessed(text, pdfIds) ==
    /\ qry.pc = "idle"
    /\ qry' = StartedQuery(text, pdfIds)
    /\ extractedPDFs' = extractedPDFs \cup Range(pdfIds)
    /\ UNCHANGED <<unitVars, snap, chat, chunkCount, embeddedChunks, pdfChunks, srch, calls,
                   ingested>>

queryCall(text, pdfIds) ==
    /\ qry.pc = "idle"
    /\ qry' = StartedQuery(text, pdfIds)
    /\ UNCHANGED <<unitVars, snap, chat, chunkCount, embeddedChunks, pdfChunks, srch, ragVars>>

\* a query that asks for a completion whatever the search returned
querySearchReturns_AlwaysCompletes ==
    /\ qry.pc = "searching"
    /\ \E results \in {SearchResults(EmbeddingOfText(qry.questions[qry.i]),
                                     qry.pdfIds,
                                     QueryTopK(Len(qry.questions)))} :
          qry' = [qry EXCEPT !.pc = "completing", !.found = results]
    /\ UNCHANGED <<unitVars, snap, chat, chunkCount, embeddedChunks, pdfChunks, srch, ragVars>>

\* the search of question i returns
querySearchReturns ==
    /\ qry.pc = "searching"
    /\ \E results \in {SearchResults(EmbeddingOfText(qry.questions[qry.i]),
                                     qry.pdfIds,
                                     QueryTopK(Len(qry.questions)))} :
          qry' = IF Len(results) > 0
                 THEN [qry EXCEPT !.pc = "completing", !.found = results]
                 ELSE IF Len(qry.questions) > 1
                 THEN NextQuestion([qry EXCEPT
                          !.answers = Append(@, Section(qry, "noInfo"))])
                 ELSE [qry EXCEPT !.pc = "answered",
                                  !.answers = <<NoInfoAnswer(qry.pdfIds)>>]
    /\ UNCHANGED <<unitVars, snap, chat, chunkCount, embeddedChunks, pdfChunks, srch, ragVars>>

\* the search of question i rejects (generateEmbedding threw): caught per
\* question in processMultipleQuestions, rethrown by query
querySearchFails ==
    /\ qry.pc = "searching"
    /\ qry' = IF Len(qry.questions) > 1
              THEN NextQuestion([qry EXCEPT !.answers = CaughtSection(qry)])
              ELSE [qry EXCEPT !.pc = "rejected"]
    /\ UNCHANGED <<unitVars, snap, chat, chunkCount, embeddedChunks, pdfChunks, srch, ragVars>>

\* generateResponse returns for question i: answer, sources, chunksUsed
queryCompletionReturns ==
    /\ qry.pc = "completing"
    /\ qry' = NextQuestion([qry EXCEPT
                  !.answers = Append(@,
                      [kind |-> "response",
                       label |-> IF Len(qry.questions) > 1 THEN qry.i ELSE 0,
                       question |-> qry.questions[qry.i],
                       context |-> [j \in 1..Len(qry.found) |->
                                       qry.found[j].chunk.id]]),
                  !.sources = @ \o [j \in 1..Len(qry.found) |->
                                       Source(qry.found[j])],
                  !.chunksUsed = @ + Len(qry.found)])
    /\ UNCHANGED <<unitVars, snap, chat, chunkCount, embeddedChunks, pdfChunks, srch, ragVars>>

\* generateResponse throws for question i
queryCompletionFails ==
    /\ qry.pc = "completing"
    /\ qry' = IF Len(qry.questions) > 1
              THEN NextQuestion([qry EXCEPT !.answers = CaughtSection(qry)])
              ELSE [qry EXCEPT !.pc = "rejected", !.found = <<>>]
    /\ UNCHANGED <<unitVars, snap, chat, chunkCount, embeddedChunks, pdfChunks, srch, ragVars>>

(***************************************************************************)
(* RAGService: ingestion.                                                  *)
(***************************************************************************)
\* Two callers can have processMultiplePDFs in flight on one RAGService: the
\* chat component's background effect and its send handler.  Caller 1 passes
\* any list, caller 2 a single document or, when the send handler itself is
\* followed, the selected documents that are not processed.
Calls == {1, 2}

\* RAGService.isPDFProcessed
isPDFProcessed(pdfId) == pdfId \in extractedPDFs

\* a processPDF that does not record the extracted document
ExtractedAfterSet_Forgotten(extracted, pdfId) == extracted

\* this.extractedPDFs.set(pdfDocument.id, extractedPDF)
ExtractedAfterSet(extracted, pdfId) == extracted \cup {pdfId}

\* the settled or pending state of one processPDF promise:
\*   "queued"      its batch has not started
\*   "extracting"  awaiting TextExtractor.extractTextFromPDF
\*   "embedding"   awaiting generateEmbeddingsInBatches
\*   "skipped"     fulfilled by the already-processed early return
\*   "added"       fulfilled after vectorStore.addChunks
\*   "rejected"    rejected (extraction or embedding threw)
Settled == {"skipped", "added", "rejected"}

\* processPDF up to its first await
ProcessPDFStart(pdfId) == IF isPDFProcessed(pdfId) THEN "skipped" ELSE "extracting"

\* a processPDF that indexes every embedding batch as soon as it returns
ChunksToAdd_PerBatch(pdfId, before, done) ==
    SubSeq(ChunksOf(pdfId), before + 1, done)

\* the chunks processPDF hands to addChunks when an embedding batch has
\* returned and `done` of the document's chunks are embedded: nothing until the
\* last batch, then all of them, in one call
ChunksToAdd(pdfId, before, done) ==
    IF done = chunkCount[pdfId] THEN ChunksOf(pdfId) ELSE <<>>

\* Promise.all in its place: rejected as soon as one promise has rejected
AwaitBatch_PromiseAll(statuses) ==
    IF \E i \in 1..Len(statuses) : statuses[i] = "rejected" THEN "rejected"
    ELSE IF \A i \in 1..Len(statuses) : statuses[i] \in Settled THEN "fulfilled"
    ELSE "pending"

\* Promise.allSettled over a batch: pending until every promise has settled,
\* then fulfilled, whatever the promises' outcomes
AwaitBatch(statuses) ==
    IF \A i \in 1..Len(statuses) : statuses[i] \in Settled THEN "fulfilled"
    ELSE "pending"

\* no call of the caller in progress: none made yet, or the last one resolved
IdleCall == [pc |-> "idle", docs |-> <<>>, i |-> 1, st |-> <<>>, emb |-> <<>>]

\* a loop that hands all the documents left to one Promise.allSettled
BatchAt_AllAtOnce(docs, i) == i..Len(docs)

\* positions of the batch that starts at position i
BatchAt(docs, i) == i..Min(i + PdfBatchSize - 1, Len(docs))

\* lists a caller passes: availablePDFs.filter(...), distinct ids in list order
RECURSIVE InListOrder(_)
\* the ids of S in the order of availablePDFs (ascending id)
InListOrder(S) ==
    IF S = {} THEN <<>>
    ELSE LET least == CHOOSE x \in S : \A y \in S : x <= y
         IN  <<least>> \o InListOrder(S \ {least})

DocLists == {InListOrder(S) : S \in SUBSET Docs \ {{}}}

ListsOf(m) == IF m = 1 THEN DocLists ELSE {<<d>> : d \in Docs}

\* the call in flight that processMultiplePDFs(docs) leaves at its first
\* await: the first batch is mapped through processPDF, each running up to
\* its own first await
StartedCall(docs) ==
    [pc |-> "running", docs |-> docs, i |-> 1,
     st |-> [p \in 1..Len(docs) |->
                IF p \in BatchAt(docs, 1) THEN ProcessPDFStart(docs[p])
                ELSE "queued"],
     emb |-> [p \in 1..Len(docs) |-> 0]]

\* processMultiplePDFs(docs) up to its first await
processMultiplePDFs(m, docs) ==
    /\ calls[m].pc # "running"
    /\ calls' = [calls EXCEPT ![m] = StartedCall(docs)]
    /\ UNCHANGED <<unitVars, snap, chat, chunkCount, embeddedChunks, pdfChunks, srch, qry,
                   extractedPDFs, ingested>>

\* processPDF: extraction returned; remember the document, chunk it, start
\* embedding (a document without chunks goes straight to addChunks([]))
extractReturns(m, p) ==
    /\ calls[m].pc = "running" /\ p \in 1..Len(calls[m].docs)
    /\ calls[m].st[p] = "extracting"
    /\ LET d == calls[m].docs[p]
       IN  /\ extractedPDFs' = ExtractedAfterSet(extractedPDFs, d)
           /\ IF chunkCount[d] = 0
              THEN /\ calls' = [calls EXCEPT ![m].st[p] = "added"]
                   /\ \E chunks \in {ChunksToAdd(d, 0, 0)} :
                      \E after \in {StoreAfterAdd(<<embeddedChunks, pdfChunks>>,
                                                  chunks)} :
                         /\ embeddedChunks' = after[1]
                         /\ pdfChunks' = after[2]
                         /\ snap' = SnapAfterAdd(snap, after[2])
                   /\ ingested' = ingested \cup {d}
              ELSE /\ calls' = [calls EXCEPT ![m].st[p] = "embedding"]
                   /\ UNCHANGED <<embeddedChunks, pdfChunks, ingested, snap>>
    /\ UNCHANGED <<unitVars, chat, chunkCount, srch, qry>>

\* processPDF: extractTextFromPDF threw; processPDF rethrows
extractFails(m, p) ==
    /\ calls[m].pc = "running" /\ p \in 1..Len(calls[m].docs)
    /\ calls[m].st[p] = "extracting"
    /\ calls' = [calls EXCEPT ![m].st[p] = "rejected"]
    /\ UNCHANGED <<unitVars, snap, chat, chunkCount, embeddedChunks, pdfChunks, srch, qry,
                   extractedPDFs, ingested>>

\* generateEmbeddingsInBatches: one batch of at most EmbedBatchSize chunks
\* returned; after the last one processPDF calls addChunks
embedBatchReturns(m, p) ==
    /\ calls[m].pc = "running" /\ p \in 1..Len(calls[m].docs)
    /\ calls[m].st[p] = "embedding"
    /\ LET d == calls[m].docs[p]
           before == calls[m].emb[p]
           done == Min(before + EmbedBatchSize, chunkCount[d])
       IN  /\ calls' = [calls EXCEPT ![m].emb[p] = done,
                                     ![m].st[p] = IF done = chunkCount[d]
                                                  THEN "added" ELSE "embedding"]
           /\ \E chunks \in {ChunksToAdd(d, before, done)} :
              \E after \in {StoreAfterAdd(<<embeddedChunks, pdfChunks>>, chunks)} :
                 /\ embeddedChunks' = after[1]
                 /\ pdfChunks' = after[2]
                 /\ snap' = SnapAfterAdd(snap, after[2])
           /\ ingested' = IF done = chunkCount[d] THEN ingested \cup {d}
                          ELSE ingested
    /\ UNCHANGED <<unitVars, chat, chunkCount, srch, qry, extractedPDFs>>

\* an embedding batch threw; processPDF rethrows, extractedPDFs keeps the entry
embedBatchFails(m, p) ==
    /\ calls[m].pc = "running" /\ p \in 1..Len(calls[m].docs)
    /\ calls[m].st[p] = "embedding"
    /\ calls' = [calls EXCEPT ![m].st[p] = "rejected"]
    /\ UNCHANGED <<unitVars, snap, chat, chunkCount, embeddedChunks, pdfChunks, srch, qry,
                   extractedPDFs, ingested>>

\* processMultiplePDFs after `await Promise.allSettled(batch...)`: the next
\* batch (after the 500 ms pause) or, behind the last one, the failure report
batchSettles(m) ==
    /\ calls[m].pc = "running"
    /\ LET c == calls[m]
           outcome == AwaitBatch([k \in 1..Cardinality(BatchAt(c.docs, c.i)) |->
                                     c.st[c.i + k - 1]])
           next == c.i + PdfBatchSize
       IN  /\ outcome # "pending"
           /\ calls' = [calls EXCEPT ![m] =
                 IF outcome = "rejected" THEN [IdleCall EXCEPT !.pc = "rejected"]
                 ELSE IF next <= Len(c.docs)
                 THEN [c EXCEPT !.i = next,
                                !.st = [p \in 1..Len(c.docs) |->
                                           IF p \in BatchAt(c.docs, next)
                                           THEN ProcessPDFStart(c.docs[p])
                                           ELSE c.st[p]]]
                 ELSE IdleCall]
    /\ UNCHANGED <<unitVars, snap, chat, chunkCount, embeddedChunks, pdfChunks, srch, qry,
                   extractedPDFs, ingested>>

\* RAGService.removePDF(pdfId)
ragRemovePDF(pdfId) ==
    /\ \E after \in {StoreAfterRemove(<<embeddedChunks, pdfChunks>>, pdfId)} :
          /\ embeddedChunks' = after[1]
          /\ pdfChunks' = after[2]
    /\ snap' = SnapAfterRemove(snap, pdfId)
    /\ extractedPDFs' = extractedPDFs \ {pdfId}
    /\ ingested' = ingested \ {pdfId}
    /\ UNCHANGED <<unitVars, chat, chunkCount, srch, qry, calls>>

(***************************************************************************)
(* ChatWithPDF.handleSendMessage.  setMessages only appends: chat.appended *)
(* holds what the handler in progress, or the last one, has appended to    *)
(* the conversation.  The model follows one handler at a time (the send    *)
(* button is disabled while isProcessing).                                 *)
(***************************************************************************)
IdleChat ==
    [pc |-> "idle", ragService |-> TRUE, query |-> <<>>, selectedPDFs |-> <<>>,
     appended |-> <<>>, isProcessing |-> FALSE, isProcessingPDFs |-> FALSE,
     selection |-> <<>>, timers |-> {}, awaiting |-> {}, sinceChange |-> 0,
     cancelled |-> FALSE]

Message(type, kind, content, sources) ==
    [type |-> type, kind |-> kind, content |-> content, sources |-> sources]

\* the processMultiplePDFs call of the send handler
SendCall == SetMax(Calls)

\* handleSendMessage up to its first await: the user message, then the
\* fallback without a RAG service, or the ingestion of the selected documents
\* that are not processed, or the query
handleSendMessage(text, selected) ==
    /\ chat.pc = "idle" /\ qry.pc = "idle" /\ calls[SendCall].pc # "running"
    /\ Len(Trim(text)) > 0 /\ Len(selected) > 0
    /\ \E userMessage \in {Message("user", "question", text, <<>>)} :
       \E pdfsToProcess \in {InListOrder({d \in Range(selected) :
                                             ~isPDFProcessed(d)})} :
          IF ~chat.ragService
          THEN /\ chat' = [chat EXCEPT
                     !.appended = <<userMessage,
                                    Message("assistant", "fallback", <<>>, <<>>)>>,
                     !.isProcessing = FALSE]
               /\ UNCHANGED <<qry, calls>>
          ELSE IF Len(pdfsToProcess) > 0
          THEN /\ chat' = [chat EXCEPT
                     !.pc = "ingesting", !.query = text,
                     !.selectedPDFs = selected, !.appended = <<userMessage>>,
                     !.isProcessing = TRUE, !.isProcessingPDFs = TRUE]
               /\ calls' = [calls EXCEPT ![SendCall] = StartedCall(pdfsToProcess)]
               /\ UNCHANGED qry
          ELSE /\ chat' = [chat EXCEPT
                     !.pc = "querying", !.query = text,
                     !.selectedPDFs = selected, !.appended = <<userMessage>>,
                     !.isProcessing = TRUE]
               /\ qry' = StartedQuery(text, selected)
               /\ UNCHANGED calls
    /\ UNCHANGED <<unitVars, snap, chunkCount, storeVars, srch, extractedPDFs, ingested>>

\* behind `await ragService.processMultiplePDFs`: the finally, then the query
\* (processMultiplePDFs resolves whatever became of the documents; were it
\* to reject, the catch would answer)
sendAfterIngestion ==
    /\ chat.pc = "ingesting"
    /\ calls[SendCall].pc # "running"
    /\ IF calls[SendCall].pc = "rejected"
       THEN /\ chat' = [chat EXCEPT
                   !.pc = "idle", !.isProcessingPDFs = FALSE,
                   !.isProcessing = FALSE,
                   !.appended = Append(@,
                       Message("assistant", "apology", <<>>, <<>>))]
            /\ UNCHANGED qry
       ELSE /\ chat' = [chat EXCEPT !.pc = "querying",
                                    !.isProcessingPDFs = FALSE]
            /\ qry' = StartedQuery(chat.query, chat.selectedPDFs)
    /\ calls' = [calls EXCEPT ![SendCall] = IdleCall]
    /\ UNCHANGED <<unitVars, snap, chunkCount, storeVars, srch, extractedPDFs, ingested>>

\* behind `await ragService.query`, which returned: the assistant message with
\* the answer and its sources, the finally
sendAfterQueryReturns ==
    /\ chat.pc = "querying"
    /\ qry.pc = "answered"
    /\ chat' = [chat EXCEPT
          !.pc = "idle", !.isProcessing = FALSE,
          !.appended = Append(@,
              Message("assistant", "answer", qry.answers, qry.sources))]
    /\ qry' = IdleQuery
    /\ UNCHANGED <<unitVars, snap, chunkCount, storeVars, srch, ragVars>>

\* `await ragService.query` threw: the catch appends the apology, the finally
sendAfterQueryRejects ==
    /\ chat.pc = "querying"
    /\ qry.pc = "rejected"
    /\ chat' = [chat EXCEPT
          !.pc = "idle", !.isProcessing = FALSE,
          !.appended = Append(@, Message("assistant", "apology", <<>>, <<>>))]
    /\ qry' = IdleQuery
    /\ UNCHANGED <<unitVars, snap, chunkCount, storeVars, srch, ragVars>>

(***************************************************************************)
(* ChatWithPDF: the selection and the background processing effect.        *)
(*   chat.selection    the state selectedPDFs                              *)
(*   chat.timers       the pending setTimeout(processSelectedPDFs, 1000)   *)
(*                     timers: the selection their closure holds, the time *)
(*                     elapsed in ticks of 1000 / DebounceTicks ms, and    *)
(*                     whether the last run of the effect made them        *)
(*   chat.awaiting     the calls a processSelectedPDFs awaits              *)
(*   chat.sinceChange  history: ticks since selectedPDFs last changed      *)
(*   chat.cancelled    history: the last change of selectedPDFs came while *)
(*                     the timer of a selection of documents was pending   *)
(* The model follows Cardinality(Calls) processMultiplePDFs calls at a     *)
(* time: a timer that is due while every call slot is taken fires late.    *)
(***************************************************************************)
\* an effect whose cleanup leaves the timer of the previous run pending
ClearTimeout_Forgotten(timers) == {[t EXCEPT !.latest = FALSE] : t \in timers}

\* the cleanup of the effect: clearTimeout(timeoutId) of its last run
ClearTimeout(timers) == {t \in timers : ~t.latest}

\* the effect after selectedPDFs changed: cleanup, then
\* setTimeout(processSelectedPDFs, 1000) with the new selection in its closure
EffectRuns(timers, selected) ==
    ClearTimeout(timers) \cup
        {[selectedPDFs |-> selected, elapsed |-> 0, latest |-> TRUE]}

\* setSelectedPDFs(next) and the render that follows it
SelectionSet(next) ==
    [chat EXCEPT !.selection = next,
                 !.timers = EffectRuns(chat.timers, next),
                 !.sinceChange = 0,
                 !.cancelled = \E t \in chat.timers :
                                  t.latest /\ Len(t.selectedPDFs) > 0]

\* handlePDFToggle(pdfId)
handlePDFToggle(pdfId) ==
    /\ chat' = SelectionSet(IF pdfId \in Range(chat.selection)
                            THEN SelectSeq(chat.selection, LAMBDA id : id # pdfId)
                            ELSE Append(chat.selection, pdfId))
    /\ UNCHANGED <<unitVars, snap, pipelineVars>>

\* a conversation is opened: setSelectedPDFs(selectedConversation.pdfIds), a
\* new array whatever it holds
selectConversation(pdfIds) ==
    /\ chat' = SelectionSet(pdfIds)
    /\ UNCHANGED <<unitVars, snap, pipelineVars>>

\* time passes: one tick for every pending timer
tick ==
    /\ chat' = [chat EXCEPT
          !.timers = {[t EXCEPT !.elapsed = Min(@ + 1, DebounceTicks)] : t \in @},
          !.sinceChange = Min(@ + 1, DebounceTicks)]
    /\ UNCHANGED <<unitVars, snap, pipelineVars>>

\* the call slots no caller occupies
FreeCalls == {m \in Calls : calls[m].pc # "running" /\ m \notin chat.awaiting}

\* a timer is due: processSelectedPDFs, with the selection of its closure, up
\* to its first await
processSelectedPDFs(t) ==
    /\ t \in chat.timers /\ t.elapsed = DebounceTicks
    /\ \E pdfsToProcess \in {InListOrder({d \in Range(t.selectedPDFs) :
                                             ~isPDFProcessed(d)})} :
          IF Len(t.selectedPDFs) = 0 \/ ~chat.ragService \/ Len(pdfsToProcess) = 0
          THEN /\ chat' = [chat EXCEPT !.timers = @ \ {t}]
               /\ UNCHANGED calls
          ELSE /\ FreeCalls # {}
               /\ \E m \in {SetMin(FreeCalls)} :
                     /\ chat' = [chat EXCEPT !.timers = @ \ {t},
                                             !.awaiting = @ \cup {m},
                                             !.isProcessingPDFs = TRUE]
                     /\ calls' = [calls EXCEPT ![m] = StartedCall(pdfsToProcess)]
    /\ UNCHANGED <<unitVars, snap, chunkCount, storeVars, srch, qry, extractedPDFs,
                   ingested>>

\* processSelectedPDFs behind `await ragService.processMultiplePDFs`: the
\* finally
backgroundSettles(m) ==
    /\ m \in chat.awaiting
    /\ calls[m].pc # "running"
    /\ chat' = [chat EXCEPT !.awaiting = @ \ {m}, !.isProcessingPDFs = FALSE]
    /\ calls' = [calls EXCEPT ![m] = IdleCall]
    /\ UNCHANGED <<unitVars, snap, chunkCount, storeVars, srch, qry, extractedPDFs,
                   ingested>>

\* the user sends a question about the selection
sendMessage(text) ==
    /\ SendCall \notin chat.awaiting
    /\ handleSendMessage(text, chat.selection)

(***************************************************************************)
(* TextChunker: chunkPDF, chunkText, splitIntoSentences, getOverlapText,   *)
(* createChunk.  chunkPDF is synchronous; its loop is stepped sentence by  *)
(* sentence so that every value of its variables is a state.               *)
(***************************************************************************)
MAX_CHUNK_SIZE == 1000
OVERLAP_SIZE == 200
MIN_CHUNK_SIZE == 100

Terminators == {".", "!", "?"}                     \* [.!?]

\* the k-th smallest of a set of numbers
KthOf(S, k) == CHOOSE x \in S : Cardinality({y \in S : y < x}) = k - 1

\* text.split(/[.!?]+/).map(trim).filter(length > 0): the runs of characters
\* between terminators, trimmed, the empty ones dropped
splitIntoSentences(text) ==
    LET ends == {i \in 1..Len(text) : text[i] \in Terminators}
        starts == {i \in {e + 1 : e \in ends \cup {0}} :
                      i <= Len(text) /\ text[i] \notin Terminators}
        EndOf(i) == IF \E e \in ends : e > i
                    THEN SetMin({e \in ends : e > i}) - 1 ELSE Len(text)
        pieces == [k \in 1..Cardinality(starts) |->
                      Trim(SubSeq(text, KthOf(starts, k),
                                  EndOf(KthOf(starts, k))))]
    IN  SelectSeq(pieces, LAMBDA sentence : Len(sentence) > 0)

\* String.prototype.lastIndexOf, counted from 0, -1 if absent
LastIndexOf(t, c) ==
    LET at == {i \in 1..Len(t) : t[i] = c}
    IN  IF at = {} THEN -1 ELSE SetMax(at) - 1

\* an overlap that is the whole chunk, whatever its length
getOverlapText_WholeChunk(chunk) == chunk

getOverlapText(chunk) ==
    IF Len(chunk) <= OVERLAP_SIZE THEN chunk
    ELSE LET overlapText == SubSeq(chunk, Len(chunk) - OVERLAP_SIZE + 1,
                                   Len(chunk))
             lastSentenceEnd == LastIndexOf(overlapText, ".")
         IN  IF lastSentenceEnd > 0
             THEN Trim(SubSeq(overlapText, lastSentenceEnd + 2,
                              Len(overlapText)))
             ELSE overlapText

\* the decimal digits of a number, as template literals print it
RECURSIVE Digits(_)
Digits(n) ==
    LET digit == <<"0", "1", "2", "3", "4", "5", "6", "7", "8", "9">>
    IN  (IF n >= 10 THEN Digits(n \div 10) ELSE <<>>) \o <<digit[(n % 10) + 1]>>

\* an id without the page number
PassageId_NoPage(pdfId, pageNumber, chunkIndex) ==
    pdfId \o <<"-", "c", "h", "u", "n", "k">> \o Digits(chunkIndex)

\* `${pdfId}-page${pageNumber}-chunk${chunkIndex}`
PassageId(pdfId, pageNumber, chunkIndex) ==
    pdfId \o <<"-", "p", "a", "g", "e">> \o Digits(pageNumber)
          \o <<"-", "c", "h", "u", "n", "k">> \o Digits(chunkIndex)

\* createChunk (wordCount and section, which nothing reads, are left out)
createChunk(text, pageNumber, chunkIndex, pdfId, startChar, endChar) ==
    [id |-> PassageId(pdfId, pageNumber, chunkIndex), text |-> Trim(text),
     pageNumber |-> pageNumber, chunkIndex |-> chunkIndex, pdfId |-> pdfId,
     startChar |-> startChar, endChar |-> endChar]

\* the sentences of the pages chunked: words of nine letters, n characters
\* in all; Gap is a sentence with a long run of blanks in it, as the empty
\* text items of a page joined by ' ' leave one
Words(n) == [i \in 1..n |-> IF i % 10 = 0 /\ i < n THEN " " ELSE "a"]

Gap == Words(765) \o [i \in 1..160 |-> " "] \o Words(45)

SentenceTexts == {Words(40), Words(150), Words(600), Words(1100), Gap}

SentenceLists ==
    UNION {[1..n -> SentenceTexts] : n \in 0..MaxSentences}

\* a page text: its sentences, closed by ". " and at the end by "?!"
RECURSIVE PageText(_)
PageText(list) ==
    IF list = <<>> THEN <<>>
    ELSE Head(list) \o (IF Len(list) > 1 THEN <<".", " ">> ELSE <<"?", "!">>)
         \o PageText(Tail(list))

\* TextExtractor.extractTextFromPDF: the pages with text, under their page
\* numbers.  Page p of the documents chunked holds the sentences of a list
\* from the p-th on.
ExtractedDocs ==
    {[id |-> <<"d", "1">>,
      extractedText |->
          SelectSeq([p \in 1..n |->
                        [text |-> PageText(SubSeq(list, p, Len(list))),
                         pageNumber |-> p]],
                    LAMBDA page : Len(Trim(page.text)) > 0)]
     : list \in SentenceLists, n \in 1..MaxPages}

NoDoc == [id |-> <<>>, extractedText |-> <<>>]

IdleChunker ==
    [pc |-> "idle", pdf |-> NoDoc, calls |-> 0, pageIndex |-> 0,
     sentences |-> <<>>, i |-> 0, currentChunk |-> <<>>, chunkIndex |-> 0,
     startChar |-> 0, pageChunks |-> <<>>, chunks |-> <<>>, previous |-> <<>>]

\* calculateSimilarity on its own: the vectors of up to MaxDimension
\* coordinates between -MaxCoordinate and MaxCoordinate
Vectors ==
    UNION {[1..n -> (0 - MaxCoordinate)..MaxCoordinate] : n \in 1..MaxDimension}

NoResult == [num |-> 0, den |-> 0 - 1]        \* not called yet

IdleSim == [a |-> <<>>, b |-> <<>>, ab |-> NoResult, ba |-> NoResult]

\* calculateSimilarity(a, b) is called
similarityCall ==
    /\ sim.ab = NoResult
    /\ Len(sim.a) > 0
    /\ sim' = [sim EXCEPT !.ab = calculateSimilarity(sim.a, sim.b)]
    /\ UNCHANGED <<pipelineVars, snap, chat, chunker, emb>>

\* calculateSimilarity(b, a) is called
similaritySwappedCall ==
    /\ sim.ba = NoResult
    /\ Len(sim.a) > 0
    /\ sim' = [sim EXCEPT !.ba = calculateSimilarity(sim.b, sim.a)]
    /\ UNCHANGED <<pipelineVars, snap, chat, chunker, emb>>

(***************************************************************************)
(* EmbeddingService.generateEmbeddings / generateBatchEmbeddings and       *)
(* RAGService.generateEmbeddingsInBatches on their own.                    *)
(***************************************************************************)
MAX_BATCH_SIZE == 100

\* the chunks embedded: chunk k of the argument, and its text
TextOf(k) == (3 * k) % 7

TextChunkOf(k) == [id |-> k, text |-> TextOf(k)]

\* the vector the remote model has for a text
VectorOfText(text) == EmbVecs[(text % Len(EmbVecs)) + 1]

\* the body of an ok response: one item per input, in the order of the inputs
ResponseData(input) ==
    [k \in 1..Len(input) |->
        [index |-> k - 1, embedding |-> VectorOfText(input[k])]]

\* a slice that runs to the end of the list
Slice_ToEnd(s, from, to) == SubSeq(s, from + 1, Len(s))

\* Array.prototype.slice(from, to)
Slice(s, from, to) == SubSeq(s, from + 1, Min(to, Len(s)))

\* generateBatchEmbeddings: chunks.map((chunk, index) => ({...chunk,
\* embedding: data.data[index].embedding}))
MapBack(chunks, data) ==
    [k \in 1..Len(chunks) |->
        [id |-> chunks[k].id, text |-> chunks[k].text,
         embedding |-> data[k].embedding]]

IdleEmb ==
    [pc |-> "idle", inBatches |-> FALSE, apiKey |-> TRUE, chunks |-> <<>>,
     o |-> 0, results |-> <<>>, batch |-> <<>>, i |-> 0,
     embeddedChunks |-> <<>>, requests |-> <<>>, failures |-> 0,
     value |-> <<>>]

\* generateBatchEmbeddings sends the request for batch.slice(i, i + 100)
SendRequest(e) ==
    [e EXCEPT !.pc = "requesting",
              !.requests = Append(@,
                  [k \in 1..Len(Slice(e.batch, e.i, e.i + MAX_BATCH_SIZE)) |->
                      Slice(e.batch, e.i, e.i + MAX_BATCH_SIZE)[k].text])]

\* generateEmbeddings(batch, apiKey) up to its first await, or to its end
CallGenerateEmbeddings(e, batch) ==
    IF ~e.apiKey THEN [e EXCEPT !.pc = "rejected"]
    ELSE IF Len(batch) = 0 THEN [e EXCEPT !.pc = "resolved", !.value = <<>>]
    ELSE SendRequest([e EXCEPT !.batch = batch, !.i = 0,
                               !.embeddedChunks = <<>>])

\* the call: generateEmbeddingsInBatches(chunks, apiKey) if inBatches, else
\* generateEmbeddings(chunks, apiKey)
embedCall ==
    /\ emb.pc = "ready"
    /\ emb' = IF emb.inBatches
              THEN IF Len(emb.chunks) = 0
                   THEN [emb EXCEPT !.pc = "resolved", !.value = <<>>]
                   ELSE CallGenerateEmbeddings(emb,
                            Slice(emb.chunks, 0, EmbedBatchSize))
              ELSE CallGenerateEmbeddings(emb, emb.chunks)
    /\ UNCHANGED <<pipelineVars, snap, chat, chunker, sim>>

\* the request returns ok: the batch is mapped and pushed; the next request,
\* or generateEmbeddings returns, to its caller or to
\* generateEmbeddingsInBatches, which pushes and goes on or returns
embedRequestReturns ==
    /\ emb.pc = "requesting"
    /\ \E sent \in {Slice(emb.batch, emb.i, emb.i + MAX_BATCH_SIZE)} :
       \E embedded \in {emb.embeddedChunks
                         \o MapBack(sent, ResponseData(
                                [k \in 1..Len(sent) |-> sent[k].text]))} :
          emb' = IF emb.i + MAX_BATCH_SIZE < Len(emb.batch)
                 THEN SendRequest([emb EXCEPT !.i = @ + MAX_BATCH_SIZE,
                                              !.embeddedChunks = embedded])
                 ELSE IF ~emb.inBatches
                 THEN [emb EXCEPT !.pc = "resolved", !.embeddedChunks = embedded,
                                  !.value = embedded]
                 ELSE IF emb.o + EmbedBatchSize < Len(emb.chunks)
                 THEN [emb EXCEPT !.pc = "pausing", !.embeddedChunks = embedded,
                                  !.results = @ \o embedded]
                 ELSE [emb EXCEPT !.pc = "resolved", !.embeddedChunks = embedded,
                                  !.results = @ \o embedded,
                                  !.value = emb.results \o embedded]
    /\ UNCHANGED <<pipelineVars, snap, chat, chunker, sim>>

\* the request fails (network error, status not ok, malformed body):
\* generateBatchEmbeddings throws, nothing above it catches
embedRequestFails ==
    /\ emb.pc = "requesting"
    /\ emb' = [emb EXCEPT !.pc = "rejected", !.failures = @ + 1]
    /\ UNCHANGED <<pipelineVars, snap, chat, chunker, sim>>

\* generateEmbeddingsInBatches: the 100 ms between two batches are over
embedPauseElapses ==
    /\ emb.pc = "pausing"
    /\ emb' = CallGenerateEmbeddings(
                  [emb EXCEPT !.o = @ + EmbedBatchSize],
                  Slice(emb.chunks, emb.o + EmbedBatchSize,
                        emb.o + 2 * EmbedBatchSize))
    /\ UNCHANGED <<pipelineVars, snap, chat, chunker, sim>>

\* no unit is exercised
UnitsIdle ==
    /\ chunker = IdleChunker
    /\ sim = IdleSim
    /\ emb = IdleEmb
    /\ snap = NoSnapshot

\* chunkPDF(extractedPDF), up to the first page; `previous` keeps what the
\* call before returned
chunkPDF ==
    /\ chunker.pc \in {"ready", "done"}
    /\ chunker.calls < MaxChunkCalls
    /\ chunker' = [chunker EXCEPT
                      !.pc = IF Len(chunker.pdf.extractedText) > 0
                             THEN "page" ELSE "done",
                      !.calls = @ + 1, !.pageIndex = 1,
                      !.chunks = <<>>, !.previous = chunker.chunks]
    /\ UNCHANGED <<pipelineVars, snap, chat, sim, emb>>

\* chunkText, up to its loop
chunkTextStart ==
    /\ chunker.pc = "page"
    /\ chunker' = [chunker EXCEPT
                      !.pc = "sentence",
                      !.sentences = splitIntoSentences(
                          chunker.pdf.extractedText[chunker.pageIndex].text),
                      !.i = 1, !.currentChunk = <<>>, !.chunkIndex = 0,
                      !.startChar = 0, !.pageChunks = <<>>]
    /\ UNCHANGED <<pipelineVars, snap, chat, sim, emb>>

\* one iteration of the loop of chunkText
chunkSentence ==
    /\ chunker.pc = "sentence"
    /\ chunker.i <= Len(chunker.sentences)
    /\ \E sentence \in {chunker.sentences[chunker.i]} :
       \E currentChunk \in {chunker.currentChunk} :
       \E potentialChunk \in {currentChunk
                              \o (IF Len(currentChunk) > 0 THEN <<" ">> ELSE <<>>)
                              \o sentence} :
          IF /\ Len(potentialChunk) > MAX_CHUNK_SIZE
             /\ Len(currentChunk) > MIN_CHUNK_SIZE
          THEN \E overlapText \in {getOverlapText(currentChunk)} :
               \E next \in {overlapText
                            \o (IF Len(overlapText) > 0 THEN <<" ">> ELSE <<>>)
                            \o sentence} :
                  chunker' = [chunker EXCEPT
                      !.pageChunks = Append(@,
                          createChunk(currentChunk,
                              chunker.pdf.extractedText[chunker.pageIndex].pageNumber,
                              chunker.chunkIndex, chunker.pdf.id,
                              chunker.startChar,
                              chunker.startChar + Len(currentChunk))),
                      !.currentChunk = next,
                      !.startChar = @ + Len(next) - Len(overlapText)
                                      - Len(sentence),
                      !.chunkIndex = @ + 1,
                      !.i = @ + 1]
          ELSE chunker' = [chunker EXCEPT !.currentChunk = potentialChunk,
                                          !.i = @ + 1]
    /\ UNCHANGED <<pipelineVars, snap, chat, sim, emb>>

\* behind the loop: the last chunk of the page if it has content, the page's
\* chunks are pushed (chunkPDF), and on to the next page or return
chunkTextEnd ==
    /\ chunker.pc = "sentence"
    /\ chunker.i > Len(chunker.sentences)
    /\ \E pageChunks \in
          {IF Len(Trim(chunker.currentChunk)) > 0
           THEN Append(chunker.pageChunks,
                    createChunk(chunker.currentChunk,
                        chunker.pdf.extractedText[chunker.pageIndex].pageNumber,
                        chunker.chunkIndex, chunker.pdf.id, chunker.startChar,
                        chunker.startChar + Len(chunker.currentChunk)))
           ELSE chunker.pageChunks} :
          chunker' = [chunker EXCEPT
              !.pc = IF chunker.pageIndex < Len(chunker.pdf.extractedText)
                     THEN "page" ELSE "done",
              !.pageIndex = @ + 1,
              !.pageChunks = pageChunks,
              !.chunks = @ \o pageChunks]
    /\ UNCHANGED <<pipelineVars, snap, chat, sim, emb>>

\* n documents: the first long enough for two embedding batches, every third
\* one without extractable text, the others short
DocumentsOf(n) == [d \in 1..n |-> IF d = 1 THEN EmbedBatchSize + 1 ELSE d % 3]

\* two callers at work at once, on as many documents as there are callers
Init ==
    /\ chunkCount = DocumentsOf(Cardinality(Calls))
    /\ embeddedChunks = <<>>
    /\ pdfChunks = EmptyMap
    /\ srch = IdleSearch
    /\ qry = IdleQuery
    /\ extractedPDFs = {}
    /\ calls = [m \in Calls |-> IdleCall]
    /\ ingested = {}
    /\ UnitsIdle
    /\ chat = IdleChat

\* the steps of the processPDF promises of call m
PipelineStep(m) ==
    \E p \in 1..Len(calls[m].docs) :
        \/ extractReturns(m, p)
        \/ extractFails(m, p)
        \/ embedBatchReturns(m, p)
        \/ embedBatchFails(m, p)

Next ==
    \/ \E m \in Calls : \E docs \in ListsOf(m) : processMultiplePDFs(m, docs)
    \/ \E m \in Calls : PipelineStep(m)
    \/ \E m \in Calls : batchSettles(m)
    \/ \E d \in Docs : ragRemovePDF(d)

Spec == Init /\ [][Next]_vars

(***************************************************************************)
(* One caller, one document more than a batch holds.                       *)
(***************************************************************************)
InitBatch ==
    /\ chunkCount = DocumentsOf(PdfBatchSize + 1)
    /\ embeddedChunks = <<>>
    /\ pdfChunks = EmptyMap
    /\ srch = IdleSearch
    /\ qry = IdleQuery
    /\ extractedPDFs = {}
    /\ calls = [m \in Calls |-> IdleCall]
    /\ ingested = {}
    /\ UnitsIdle
    /\ chat = IdleChat

NextBatch ==
    \/ \E docs \in DocLists : processMultiplePDFs(1, docs)
    \/ PipelineStep(1)
    \/ batchSettles(1)
    \/ \E d \in Docs : ragRemovePDF(d)

SpecBatch == InitBatch /\ [][NextBatch]_vars

\* one caller that ingests and never removes, remote calls that eventually
\* return or fail, and a scheduler that runs the continuation of a settled
\* await
NextIngest ==
    \/ \E docs \in DocLists : processMultiplePDFs(1, docs)
    \/ PipelineStep(1)
    \/ batchSettles(1)

SpecBatchLive ==
    /\ InitBatch
    /\ [][NextIngest]_vars
    /\ WF_vars(PipelineStep(1))
    /\ WF_vars(batchSettles(1))

(***************************************************************************)
(* The operations of the RAGService called one after the other: a call is  *)
(* made only when the previous one has returned.                           *)
(***************************************************************************)
NoCallRunning == \A m \in Calls : calls[m].pc # "running"

NextSeq ==
    \/ \E docs \in DocLists : processMultiplePDFs(1, docs)
    \/ PipelineStep(1)
    \/ batchSettles(1)
    \/ NoCallRunning /\ \E d \in Docs : ragRemovePDF(d)

SpecSeq == InitBatch /\ [][NextSeq]_vars

InitStore ==
    /\ chunkCount = [d \in 1..NumDocs |-> IF d = 1 THEN 2 ELSE IF d = 2 THEN 1 ELSE 0]
    /\ embeddedChunks = <<>>
    /\ pdfChunks = EmptyMap
    /\ srch = IdleSearch
    /\ qry = IdleQuery
    /\ extractedPDFs = {}
    /\ calls = [m \in Calls |-> IdleCall]
    /\ ingested = {}
    /\ UnitsIdle
    /\ chat = IdleChat

NextStore ==
    \/ \E d \in Docs, a, b \in 1..MaxListLen : addChunks(d, a, b)
    \/ \E d \in Docs : removePDF(d)
    \/ clear
    \/ /\ NoReader
       /\ \E q \in QueryVecs, ids \in PdfIdLists, k \in 1..MaxTopK :
             searchCall(q, ids, k)
    \/ searchReturn
    \/ searchEmbeddingFails

SpecStore == InitStore /\ [][NextStore]_vars

(***************************************************************************)
(* The VectorStore with its snapshots: the index changes between           *)
(* exportData and importData.                                              *)
(***************************************************************************)
NextSnapshot ==
    \/ \E d \in Docs, a, b \in 1..MaxListLen : addChunks(d, a, b)
    \/ \E d \in Docs : removePDF(d)
    \/ clear
    \/ exportData
    \/ importData

SpecSnapshot == InitStore /\ [][NextSnapshot]_vars

(***************************************************************************)
(* Queries and searches over an index that holds whole documents, as       *)
(* processPDF fills it: addChunks is called with all chunks of a document. *)
(***************************************************************************)
NextQuery ==
    \/ \E d \in Docs : addChunks(d, 1, chunkCount[d])
    \/ \E d \in Docs : removePDF(d)
    \/ /\ NoReader
       /\ \E q \in QueryVecs, ids \in PdfIdLists, k \in 1..MaxTopK :
             searchCall(q, ids, k)
    \/ searchReturn
    \/ searchEmbeddingFails
    \/ /\ NoReader
       /\ \E text \in QuestionTexts, ids \in PdfIdLists : queryCall(text, ids)
    \/ querySearchReturns
    \/ querySearchFails
    \/ queryCompletionReturns
    \/ queryCompletionFails

SpecQuery == InitStore /\ [][NextQuery]_vars

(***************************************************************************)
(* Concurrent readers: a query, and beside it the search of another query  *)
(* over the same documents, on an index that holds some of the documents.  *)
(***************************************************************************)
\* the index after processPDF of the documents of a set, in the order of ids
RECURSIVE StoreHolding(_)
StoreHolding(S) ==
    IF S = {} THEN <<<<>>, EmptyMap>>
    ELSE StoreAfterAdd(StoreHolding(S \ {SetMax(S)}), ChunksOf(SetMax(S)))

InitReaders ==
    /\ chunkCount = [d \in 1..NumDocs |-> IF d = 1 THEN 2 ELSE IF d = 2 THEN 1 ELSE 0]
    /\ \E S \in SUBSET Docs :
          /\ embeddedChunks = StoreHolding(S)[1]
          /\ pdfChunks = StoreHolding(S)[2]
          /\ extractedPDFs = S
          /\ ingested = S
    /\ srch = IdleSearch
    /\ qry = IdleQuery
    /\ calls = [m \in Calls |-> IdleCall]
    /\ UnitsIdle
    /\ chat = IdleChat

NextReaders ==
    \/ \E text \in QuestionTexts, ids \in PdfIdLists : queryCall(text, ids)
    \/ /\ QueryInFlight
       /\ \E q \in QueryVecs : searchCall(q, qry.pdfIds, MaxTopK)
    \/ searchReturn
    \/ searchEmbeddingFails
    \/ querySearchReturns
    \/ querySearchFails
    \/ queryCompletionReturns
    \/ queryCompletionFails

SpecReaders == InitReaders /\ [][NextReaders]_vars

(***************************************************************************)
(* The send handler of the chat component over the pipeline: messages are  *)
(* sent, with and without a RAG service, about documents of which any may  *)
(* still have to be ingested.                                              *)
(***************************************************************************)
InitChat ==
    /\ chunkCount = [d \in 1..NumDocs |-> IF d = 1 THEN 2 ELSE IF d = 2 THEN 1 ELSE 0]
    /\ embeddedChunks = <<>>
    /\ pdfChunks = EmptyMap
    /\ srch = IdleSearch
    /\ qry = IdleQuery
    /\ extractedPDFs = {}
    /\ calls = [m \in Calls |-> IdleCall]
    /\ ingested = {}
    /\ UnitsIdle
    /\ \E ragService \in BOOLEAN :
          chat = [IdleChat EXCEPT !.ragService = ragService]

NextChat ==
    \/ \E text \in QuestionTexts, selected \in PdfIdLists :
          handleSendMessage(text, selected)
    \/ PipelineStep(SendCall)
    \/ batchSettles(SendCall)
    \/ sendAfterIngestion
    \/ querySearchReturns
    \/ querySearchFails
    \/ queryCompletionReturns
    \/ queryCompletionFails
    \/ sendAfterQueryReturns
    \/ sendAfterQueryRejects

SpecChat == InitChat /\ [][NextChat]_vars

(***************************************************************************)
(* The background processing effect alone: the selection changes, time     *)
(* passes, due timers start ingestions, which the remote services serve.   *)
(***************************************************************************)
\* the component is mounted with nothing selected: the effect has run once;
\* as many documents, of one chunk each, as the model follows calls
InitDebounce ==
    /\ chunkCount = [d \in 1..Cardinality(Calls) |-> 1]
    /\ embeddedChunks = <<>>
    /\ pdfChunks = EmptyMap
    /\ srch = IdleSearch
    /\ qry = IdleQuery
    /\ extractedPDFs = {}
    /\ calls = [m \in Calls |-> IdleCall]
    /\ ingested = {}
    /\ UnitsIdle
    /\ chat = [IdleChat EXCEPT !.timers = EffectRuns({}, <<>>)]

NextDebounce ==
    \/ \E pdfId \in Docs : handlePDFToggle(pdfId)
    \/ \E pdfIds \in PdfIdLists : selectConversation(pdfIds)
    \/ tick
    \/ \E t \in chat.timers : processSelectedPDFs(t)
    \/ \E m \in Calls : backgroundSettles(m)
    \/ \E m \in Calls : \E p \in 1..Len(calls[m].docs) : extractReturns(m, p)
    \/ \E m \in Calls : \E p \in 1..Len(calls[m].docs) : embedBatchReturns(m, p)
    \/ \E m \in Calls : batchSettles(m)

SpecDebounce == InitDebounce /\ [][NextDebounce]_vars

(***************************************************************************)
(* The chat component at work: the selection changes, time passes, the     *)
(* background effect and the send handler ingest, which the remote         *)
(* services serve, and the handler queries, with every outcome.            *)
(***************************************************************************)
NextSelect ==
    \/ \E pdfIds \in PdfIdLists : selectConversation(pdfIds)
    \/ tick
    \/ \E t \in chat.timers : processSelectedPDFs(t)
    \/ \E m \in Calls : backgroundSettles(m)
    \/ sendMessage(Asking(1, 1))
    \/ \E m \in Calls : \E p \in 1..Len(calls[m].docs) : extractReturns(m, p)
    \/ \E m \in Calls : \E p \in 1..Len(calls[m].docs) : embedBatchReturns(m, p)
    \/ \E m \in Calls : batchSettles(m)
    \/ sendAfterIngestion
    \/ querySearchReturns
    \/ querySearchFails
    \/ queryCompletionReturns
    \/ queryCompletionFails
    \/ sendAfterQueryReturns
    \/ sendAfterQueryRejects

SpecSelect == InitDebounce /\ [][NextSelect]_vars

(***************************************************************************)
(* The background effect on one document more than a batch holds, as the   *)
(* user goes from one conversation to another.                             *)
(***************************************************************************)
\* the pdfIds of the stored conversations: one about the documents of a full
\* batch, one about the document left
Conversations == {InListOrder(1..PdfBatchSize), <<PdfBatchSize + 1>>}

InitCrowd ==
    /\ chunkCount = [d \in 1..(PdfBatchSize + 1) |-> 1]
    /\ embeddedChunks = <<>>
    /\ pdfChunks = EmptyMap
    /\ srch = IdleSearch
    /\ qry = IdleQuery
    /\ extractedPDFs = {}
    /\ calls = [m \in Calls |-> IdleCall]
    /\ ingested = {}
    /\ UnitsIdle
    /\ chat = [IdleChat EXCEPT !.timers = EffectRuns({}, <<>>)]

NextCrowd ==
    \/ \E pdfIds \in Conversations : selectConversation(pdfIds)
    \/ tick
    \/ \E t \in chat.timers : processSelectedPDFs(t)
    \/ \E m \in Calls : backgroundSettles(m)
    \/ \E m \in Calls : \E p \in 1..Len(calls[m].docs) : extractReturns(m, p)
    \/ \E m \in Calls : \E p \in 1..Len(calls[m].docs) : embedBatchReturns(m, p)
    \/ \E m \in Calls : batchSettles(m)

SpecCrowd == InitCrowd /\ [][NextCrowd]_vars


\* TextChunker.chunkPDF on its own: every extracted document of
\* ExtractedDocs, chunked up to MaxChunkCalls times
InitChunk ==
    /\ chunkCount = [d \in 1..NumDocs |-> 0]
    /\ embeddedChunks = <<>>
    /\ pdfChunks = EmptyMap
    /\ srch = IdleSearch
    /\ qry = IdleQuery
    /\ extractedPDFs = {}
    /\ calls = [m \in Calls |-> IdleCall]
    /\ ingested = {}
    /\ \E pdf \in ExtractedDocs :
          chunker = [IdleChunker EXCEPT !.pc = "ready", !.pdf = pdf]
    /\ sim = IdleSim
    /\ emb = IdleEmb
    /\ snap = NoSnapshot
    /\ chat = IdleChat

NextChunk ==
    \/ chunkPDF
    \/ chunkTextStart
    \/ chunkSentence
    \/ chunkTextEnd

SpecChunk == InitChunk /\ [][NextChunk]_vars

\* EmbeddingService.calculateSimilarity on its own, on every pair of Vectors
InitSim ==
    /\ chunkCount = [d \in 1..NumDocs |-> 0]
    /\ embeddedChunks = <<>>
    /\ pdfChunks = EmptyMap
    /\ srch = IdleSearch
    /\ qry = IdleQuery
    /\ extractedPDFs = {}
    /\ calls = [m \in Calls |-> IdleCall]
    /\ ingested = {}
    /\ chunker = IdleChunker
    /\ \E a, b \in Vectors : sim = [IdleSim EXCEPT !.a = a, !.b = b]
    /\ emb = IdleEmb
    /\ snap = NoSnapshot
    /\ chat = IdleChat

NextSim ==
    \/ similarityCall
    \/ similaritySwappedCall

SpecSim == InitSim /\ [][NextSim]_vars

\* the embedding calls on their own: lists of 0..MaxEmbedChunks chunks, with
\* and without an API key, given to either function
InitEmbed ==
    /\ chunkCount = [d \in 1..NumDocs |-> 0]
    /\ embeddedChunks = <<>>
    /\ pdfChunks = EmptyMap
    /\ srch = IdleSearch
    /\ qry = IdleQuery
    /\ extractedPDFs = {}
    /\ calls = [m \in Calls |-> IdleCall]
    /\ ingested = {}
    /\ chunker = IdleChunker
    /\ sim = IdleSim
    /\ snap = NoSnapshot
    /\ chat = IdleChat
    /\ \E n \in 0..MaxEmbedChunks, inBatches, apiKey \in BOOLEAN :
          emb = [IdleEmb EXCEPT !.pc = "ready", !.inBatches = inBatches,
                                !.apiKey = apiKey,
                                !.chunks = [k \in 1..n |-> TextChunkOf(k)]]

NextEmbed ==
    \/ embedCall
    \/ embedRequestReturns
    \/ embedRequestFails
    \/ embedPauseElapses

SpecEmbed == InitEmbed /\ [][NextEmbed]_vars

(***************************************************************************)
(* Properties.                                                             *)
(***************************************************************************)
\* the chunk ids chunking document d yields
AllChunkIds(d) == {ChunkId(d, k) : k \in 0..(chunkCount[d] - 1)}

\* the chunks of d in the passage map, and the ids in d's chunk-id list
IndexedChunkIds(d) ==
    {c.id : c \in {x \in Range(embeddedChunks) : x.pdfId = d}}
ListedChunkIds(d) == IF d \in DOMAIN pdfChunks THEN Range(pdfChunks[d]) ELSE {}

\* a processPDF promise of document d is pending
InFlight(d) ==
    \E m \in Calls : \E p \in 1..Len(calls[m].docs) :
        calls[m].docs[p] = d /\ calls[m].st[p] \in {"extracting", "embedding"}

\* C1: in every reachable state the index holds, of every document, either
\* none of its passages or all of them, in the passage map and in the
\* document's chunk-id list alike; a search gathers one or the other.
C1_NoPartialDocument ==
    \A d \in Docs :
        /\ IndexedChunkIds(d) \in {{}, AllChunkIds(d)}
        /\ ListedChunkIds(d) = IndexedChunkIds(d)
        /\ {c.id : c \in Range(getChunksForPDFs(<<d>>))} \in {{}, AllChunkIds(d)}

\* an ingestion between two embedding batches, nothing of the document visible
C1_Witness ==
    \E m \in Calls : \E p \in 1..Len(calls[m].docs) :
        /\ calls[m].st[p] = "embedding"
        /\ calls[m].emb[p] > 0
        /\ calls[m].emb[p] < chunkCount[calls[m].docs[p]]
        /\ IndexedChunkIds(calls[m].docs[p]) = {}

\* C2: with the operations called in sequence, a document that a processPDF
\* has ingested is never put through the pipeline again: no later call has an
\* extraction or embedding pending for it, and the index keeps exactly the
\* passages of the one ingestion (each id listed once).
C2_IdempotentIngestion ==
    \A d \in ingested :
        /\ ~InFlight(d)
        /\ IndexedChunkIds(d) = AllChunkIds(d)
        /\ Len(getChunksForPDFs(<<d>>)) = chunkCount[d]
        /\ d \in DOMAIN pdfChunks => Len(pdfChunks[d]) = chunkCount[d]

\* a second call on an ingested document has returned early
C2_Witness ==
    /\ calls[1].pc = "running"
    /\ \E p \in 1..Len(calls[1].docs) :
          /\ calls[1].st[p] = "skipped"
          /\ calls[1].docs[p] \in ingested
          /\ chunkCount[calls[1].docs[p]] > 0

\* C3: the cache-hit check is membership in the index: a document that
\* isPDFProcessed reports processed, and that no ingestion is working on, has
\* its passages in the index; so after a failed ingestion it is not reported
\* processed and a later processPDF runs the pipeline again.
C3_CacheHitIsIndexMembership ==
    \A d \in Docs :
        isPDFProcessed(d) /\ ~InFlight(d) => AllChunkIds(d) \subseteq KeysOf(embeddedChunks)

\* C4: a processMultiplePDFs call ends only by resolving, and only when the
\* processPDF promise of every document of its list, in every batch, has
\* settled, whatever number of them rejected.
C4_FailureIsolation ==
    [][\A m \in Calls :
          calls[m].pc = "running" /\ calls'[m].pc # "running"
          => /\ calls'[m].pc = "idle"
             /\ \A p \in 1..Len(calls[m].docs) : calls[m].st[p] \in Settled]_vars

\* a document of the first batch rejected, a sibling and a document of the
\* second batch are ingested and in the index
C4_Witness ==
    /\ calls[1].pc = "running"
    /\ Len(calls[1].docs) > PdfBatchSize
    /\ \E p, q \in 1..PdfBatchSize :
          /\ calls[1].st[p] = "rejected"
          /\ calls[1].st[q] = "added"
          /\ chunkCount[calls[1].docs[q]] > 0
          /\ IndexedChunkIds(calls[1].docs[q]) = AllChunkIds(calls[1].docs[q])
    /\ LET last == calls[1].docs[Len(calls[1].docs)]
       IN  /\ calls[1].st[Len(calls[1].docs)] = "added"
           /\ chunkCount[last] > 0
           /\ IndexedChunkIds(last) = AllChunkIds(last)


\* the passages of document d in the passage map, in the Map's order
PassagesOf(chunkMap, d) == SelectSeq(chunkMap, LAMBDA c : c.pdfId = d)

\* place of a chunk id in the passage map's insertion order (0: not there)
InsertionRank(id) ==
    IF id \in KeysOf(embeddedChunks)
    THEN CHOOSE i \in 1..Len(embeddedChunks) : embeddedChunks[i].id = id
    ELSE 0

\* the passages of the selected documents that are in the index
InScope(pdfIds) == {c \in Range(embeddedChunks) : c.pdfId \in Range(pdfIds)}

\* none of the selected documents has anything in the index
NothingIndexed(pdfIds) ==
    \A d \in Range(pdfIds) : d \notin DOMAIN pdfChunks /\ IndexedChunkIds(d) = {}

\* C5: every passage a search returns, and every source of a query's answer,
\* belongs to a document of the pdfIds argument, whatever passages the other
\* documents hold.
C5_MultiDocumentScoping ==
    /\ srch.pc = "returned"
       => \A i \in 1..Len(srch.result) :
             srch.result[i].chunk.pdfId \in Range(srch.pdfIds)
    /\ \A i \in 1..Len(qry.sources) : qry.sources[i].pdfId \in Range(qry.pdfIds)

\* a search has returned passages while a document outside its scope holds a
\* passage strictly more similar to the query than the best one returned
C5_Witness ==
    /\ srch.pc = "returned" /\ Len(srch.result) > 0
    /\ \E c \in Range(embeddedChunks) :
          /\ c.pdfId \notin Range(srch.pdfIds)
          /\ SimLess(srch.result[1].similarity,
                     calculateSimilarity(srch.query, c.embedding))

\* C6: a step RAGService.removePDF(d) leaves no entry for d in
\* getStats().chunksPerPDF and no passage of d in the passage map, makes every
\* search scoped to [d] return nothing whatever the query and topK, leaves
\* the passages and list of every other document as they were, and makes
\* isPDFProcessed(d) false, so that the next processPDF(d) runs the pipeline.
C6_RemovalCascades ==
    [][\A d \in Docs :
          ragRemovePDF(d)
          => /\ d \notin DOMAIN getStats'.chunksPerPDF
             /\ IndexedChunkIds(d)' = {}
             /\ \A q \in QueryVecs, k \in 1..MaxTopK :
                   SearchResults(q, <<d>>, k)' = <<>>
             /\ \A e \in Docs \ {d} :
                   /\ PassagesOf(embeddedChunks, e)' = PassagesOf(embeddedChunks, e)
                   /\ (e \in DOMAIN pdfChunks) = (e \in DOMAIN pdfChunks')
                   /\ e \in DOMAIN pdfChunks => pdfChunks'[e] = pdfChunks[e]
             /\ ~isPDFProcessed(d)'
             /\ ProcessPDFStart(d)' = "extracting"]_vars

\* a document that a call has ingested has been removed while the other
\* document is in the index
C6_Witness ==
    \E m \in Calls : \E p \in 1..Len(calls[m].docs) :
        LET d == calls[m].docs[p]
        IN  /\ calls[m].st[p] = "added"
            /\ chunkCount[d] > 0
            /\ ~isPDFProcessed(d)
            /\ IndexedChunkIds(d) = {}
            /\ \E e \in Docs \ {d} :
                  chunkCount[e] > 0 /\ IndexedChunkIds(e) = AllChunkIds(e)

\* C7: a search over no document, or over documents none of which has
\* anything in the index, ends by returning the empty result and never by an
\* error, whatever the index holds and whatever the embedding service does.
C7_EmptySelectionNeverFails ==
    srch.pc \in {"returned", "rejected"} /\ NothingIndexed(srch.pdfIds)
    => srch.pc = "returned" /\ srch.result = <<>>

\* C8: the Answer a query returns for a selection of which nothing has been
\* ingested is, for a single and for a compound question alike, the one
\* "no relevant information" answer that carries the diagnostic counts, with
\* no source and chunksUsed = 0.
C8_UnprocessedSelectionDiagnostic ==
    qry.pc = "answered" /\ NothingIndexed(qry.pdfIds)
    => /\ qry.answers = <<NoInfoAnswer(qry.pdfIds)>>
       /\ qry.sources = <<>>
       /\ qry.chunksUsed = 0

\* C9: with N passages of the selected documents in the index, a search returns
\* exactly min(topK, N) results, by non-increasing similarity, and no passage
\* in scope that it left out is strictly more similar than a returned one.
C9_TopKRanking ==
    srch.pc = "returned"
    => LET r == srch.result
           returned == {r[i].chunk.id : i \in 1..Len(r)}
       IN  /\ Len(r) = Min(srch.topK, Cardinality(InScope(srch.pdfIds)))
           /\ \A i \in 1..(Len(r) - 1) :
                 ~SimLess(r[i].similarity, r[i + 1].similarity)
           /\ \A c \in InScope(srch.pdfIds) : \A i \in 1..Len(r) :
                 c.id \notin returned
                 => ~SimLess(r[i].similarity,
                             calculateSimilarity(srch.query, c.embedding))

\* C10 as stated: of two passages in scope with equal similarity, the one put
\* into the passage map earlier ranks first, and is the one returned if topK
\* cuts between them, whatever the order of the ids in pdfIds.
C10_TieBreakByInsertion ==
    srch.pc = "returned"
    => LET r == srch.result
       IN  /\ \A i, j \in 1..Len(r) :
                 i < j /\ SimEq(r[i].similarity, r[j].similarity)
                 => InsertionRank(r[i].chunk.id) <= InsertionRank(r[j].chunk.id)
           /\ \A c \in InScope(srch.pdfIds) : \A i \in 1..Len(r) :
                 /\ c.id \notin {r[j].chunk.id : j \in 1..Len(r)}
                 /\ SimEq(r[i].similarity,
                          calculateSimilarity(srch.query, c.embedding))
                 => InsertionRank(r[i].chunk.id) < InsertionRank(c.id)

\* C10, amended: passages of equal similarity are ranked in the order
\* getChunksForPDFs gathers them (documents in the order of the pdfIds
\* argument, each document's chunk-id list in its order): for every similarity
\* value, the results that have it are the first of the gathered passages that
\* have it, in the gathered order.
C10_TieBreakByGatheredOrder ==
    srch.pc = "returned"
    => LET gathered == getChunksForPDFs(srch.pdfIds)
           ranked == [i \in 1..Len(srch.result) |-> srch.result[i].chunk]
       IN  \A i \in 1..Len(srch.result) :
              LET r == SelectSeq(ranked, LAMBDA c :
                           SimEq(srch.result[i].similarity,
                                 calculateSimilarity(srch.query, c.embedding)))
                  g == SelectSeq(gathered, LAMBDA c :
                           SimEq(srch.result[i].similarity,
                                 calculateSimilarity(srch.query, c.embedding)))
              IN  Len(r) <= Len(g) /\ r = SubSeq(g, 1, Len(r))

\* a search has ranked two passages of equal similarity against the order
\* in which they were put into the passage map
C10_Witness ==
    /\ srch.pc = "returned"
    /\ \E i, j \in 1..Len(srch.result) :
          /\ i < j
          /\ SimEq(srch.result[i].similarity, srch.result[j].similarity)
          /\ InsertionRank(srch.result[i].chunk.id)
                > InsertionRank(srch.result[j].chunk.id)

\* sum of the values of a function with a finite domain
RECURSIVE SumOver(_, _)
SumOver(f, S) ==
    IF S = {} THEN 0
    ELSE LET x == CHOOSE y \in S : TRUE IN f[x] + SumOver(f, S \ {x})

\* the store is as addChunks(chunks a..b of d) leaves it: the chunks are in
\* the passage map and their ids are the last ones of d's chunk-id list
JustAdded(d, a, b) ==
    /\ d \in DOMAIN pdfChunks
    /\ Len(pdfChunks[d]) >= b - a + 1
    /\ SubSeq(pdfChunks[d], Len(pdfChunks[d]) - (b - a), Len(pdfChunks[d]))
          = [i \in 1..(b - a + 1) |-> ChunkId(d, a + i - 2)]
    /\ \A i \in a..b : ChunkAt(embeddedChunks, ChunkId(d, i - 1)) = ChunksOf(d)[i]

\* C11: addChunks(X) called on the store that an addChunks(X) has left
\* changes nothing: the passage map and every document's chunk-id list (hence
\* getStats and every search result) are as after the single call.
C11_AddIdempotent ==
    [][\A d \in Docs : \A a, b \in 1..MaxListLen :
          addChunks(d, a, b) /\ JustAdded(d, a, b)
          => /\ UNCHANGED <<embeddedChunks, pdfChunks>>
             /\ getStats' = getStats]_vars

\* C12: getStats agrees with the index: totalChunks is the sum of
\* chunksPerPDF, totalPDFs the number of documents with a passage in the
\* index, chunksPerPDF[d] the number of distinct passages of d stored.
C12_StatsConsistent ==
    LET stats == getStats
    IN  /\ stats.totalChunks
              = SumOver(stats.chunksPerPDF, DOMAIN stats.chunksPerPDF)
        /\ stats.totalPDFs
              = Cardinality({d \in Docs : IndexedChunkIds(d) # {}})
        /\ \A d \in DOMAIN stats.chunksPerPDF :
              stats.chunksPerPDF[d] = Cardinality(IndexedChunkIds(d))


\* the text "What is X? What is Y?"
WhatIsXWhatIsY ==
    WhatIs("X") \o <<"?", " ">> \o WhatIs("Y") \o <<"?">>

\* what detectMultipleQuestions makes of it
TwoSubQuestions == detectMultipleQuestions(WhatIsXWhatIsY)

\* and of every text asked
SubQuestionsOf ==
    [text \in QuestionTexts \cup {<<>>} |-> detectMultipleQuestions(text)]

\* C13: "What is X? What is Y?" is detected as two sub-questions, and a query
\* whose text yields n > 1 sub-questions never rejects: once it has returned,
\* its answer has exactly n sections, the i-th one labelled Question i and
\* about the i-th sub-question, whatever the outcome of each sub-question;
\* while it runs, the sections so far are those of the questions before the
\* current one.
C13_CompoundQuestion ==
    /\ TwoSubQuestions = <<WhatIs("X"), WhatIs("Y") \o <<"?">> >>
    /\ LET questions == SubQuestionsOf[qry.text]
           n == Len(questions)
       IN  qry.pc # "idle" /\ n > 1 =>
              /\ qry.pc # "rejected"
              /\ qry.pc = "answered" => Len(qry.answers) = n
              /\ qry.pc \in {"searching", "completing"} =>
                    Len(qry.answers) = qry.i - 1
              /\ \A i \in 1..Len(qry.answers) :
                    /\ qry.answers[i].label = i
                    /\ qry.answers[i].question = questions[i]
                    /\ qry.answers[i].kind \in {"response", "noInfo", "error"}

\* the query "What is X? What is Y?" has returned two sections, the first an
\* apology for an error and the second an answer
C13_Witness ==
    /\ qry.pc = "answered"
    /\ qry.text = WhatIsXWhatIsY
    /\ Len(qry.answers) = 2
    /\ qry.answers[1].kind = "error"
    /\ qry.answers[2].kind = "response"


\* the step seals a chunk: an iteration of the loop of chunkText pushes one
SealStep ==
    /\ chunker.pc = "sentence"
    /\ chunker.i <= Len(chunker.sentences)
    /\ Len(chunker'.pageChunks) = Len(chunker.pageChunks) + 1

\* the step pushes the last chunk of a page
LastChunkStep ==
    /\ chunker.pc = "sentence"
    /\ chunker.i > Len(chunker.sentences)
    /\ Len(chunker'.pageChunks) = Len(chunker.pageChunks) + 1

\* the chunk a step pushes
Pushed == chunker'.pageChunks[Len(chunker'.pageChunks)]

\* C14: every Passage that chunkText seals is at most MAX_CHUNK_SIZE plus the
\* length of the sentence whose arrival sealed it long, and at least
\* MIN_CHUNK_SIZE long.
C14_ChunkSizeBound ==
    [][SealStep =>
          /\ Len(Pushed.text)
                <= MAX_CHUNK_SIZE + Len(chunker.sentences[chunker.i])
          /\ Len(Pushed.text) >= MIN_CHUNK_SIZE]_vars

\* C14 as the code has it: every Passage is at most MAX_CHUNK_SIZE plus the
\* length of its own last sentence long; a sealed Passage was longer than
\* MIN_CHUNK_SIZE before createChunk trimmed it, and its text is at least
\* MIN_CHUNK_SIZE long unless the chunk began with two or more blanks.
C14_ChunkSizeBoundByLastSentence ==
    [][/\ SealStep =>
             /\ Len(Pushed.text)
                   <= MAX_CHUNK_SIZE + Len(chunker.sentences[chunker.i - 1])
             /\ Pushed.endChar - Pushed.startChar > MIN_CHUNK_SIZE
             /\ \/ Len(Pushed.text) >= MIN_CHUNK_SIZE
                \/ /\ IsSpace(chunker.currentChunk[1])
                   /\ IsSpace(chunker.currentChunk[2])
       /\ LastChunkStep =>
             Len(Pushed.text)
                <= MAX_CHUNK_SIZE
                   + Len(chunker.sentences[Len(chunker.sentences)])]_vars

\* a page has been chunked into a Passage longer than MAX_CHUNK_SIZE, sealed
\* by a following sentence, and a closing one
C14_Witness ==
    /\ chunker.pc = "done"
    /\ \E k \in 1..(Len(chunker.chunks) - 1) :
          /\ chunker.chunks[k].pageNumber = chunker.chunks[k + 1].pageNumber
          /\ Len(chunker.chunks[k].text) > MAX_CHUNK_SIZE


\* a text without its whitespace
Squeeze(t) == SelectSeq(t, LAMBDA c : ~IsSpace(c))

\* the core of the k-th chunk of a page: its text behind the overlap it took
\* from the chunk before it and the blank that joins the two
CoreText(pageChunks, k) ==
    IF k = 1 THEN pageChunks[k].text
    ELSE LET before == pageChunks[k - 1].endChar - pageChunks[k - 1].startChar
             length == pageChunks[k].endChar - pageChunks[k].startChar
             trimmed == length - Len(pageChunks[k].text)
         IN  SubSeq(pageChunks[k].text,
                    Min(OVERLAP_SIZE, before) + 2 - trimmed,
                    Len(pageChunks[k].text))

\* the page chunkText has just returned from
PageDone ==
    /\ chunker.pc \in {"page", "done"}
    /\ chunker.pageIndex > 1

\* C15: when chunkText has chunked a page, the core texts of its Passages,
\* concatenated in order, are the text of the page (compared without
\* whitespace): nothing of the page is missing.
C15_ChunkCoverage ==
    PageDone =>
       Squeeze(chunker.pdf.extractedText[chunker.pageIndex - 1].text)
          = Squeeze(Concat([k \in 1..Len(chunker.pageChunks) |->
                               CoreText(chunker.pageChunks, k)]))


\* the ids of a list of chunks
IdsOf(chunks) == [k \in 1..Len(chunks) |-> chunks[k].id]

\* how many chunks of the page of the k-th chunk come before it
EarlierOfPage(chunks, k) ==
    Cardinality({j \in 1..(k - 1) :
                    chunks[j].pageNumber = chunks[k].pageNumber})

\* C16: the K-th Passage (K = 0, 1, 2, ...) of page N of document D has the
\* id "D-pageN-chunkK", no two Passages of the document share an id, and
\* chunking the same extracted document again gives the same ids.
C16_PassageIds ==
    /\ \A chunks \in {chunker.chunks, chunker.pageChunks} :
          /\ \A k \in 1..Len(chunks) :
                chunks[k].id = PassageId(chunker.pdf.id, chunks[k].pageNumber,
                                         EarlierOfPage(chunks, k))
          /\ \A j, k \in 1..Len(chunks) :
                chunks[j].id = chunks[k].id => j = k
    /\ \A k \in 1..Len(chunker.chunks) :
          \E p \in 1..Len(chunker.pdf.extractedText) :
             chunker.pdf.extractedText[p].pageNumber
                = chunker.chunks[k].pageNumber
    /\ chunker.pc = "done" /\ chunker.calls > 1 =>
          IdsOf(chunker.chunks) = IdsOf(chunker.previous)

\* a document of two pages has been chunked twice, and the second Passage of
\* its second page is "d1-page2-chunk1"
C16_Witness ==
    /\ chunker.pc = "done"
    /\ chunker.calls > 1
    /\ \E k \in 1..Len(chunker.chunks) :
          chunker.chunks[k].id
             = <<"d", "1", "-", "p", "a", "g", "e", "2",
                 "-", "c", "h", "u", "n", "k", "1">>


IsZeroVector(v) == \A i \in 1..Len(v) : v[i] = 0

Zero == [num |-> 0, den |-> 1]                \* the number 0 as a similarity

C18_EmbeddingKeepsOrder ==
    /\ emb.pc = "resolved" =>
          /\ Len(emb.value) = Len(emb.chunks)
          /\ \A i \in 1..Len(emb.chunks) :
                emb.value[i] = [id |-> emb.chunks[i].id,
                                text |-> emb.chunks[i].text,
                                embedding |-> VectorOfText(emb.chunks[i].text)]
    /\ \A r \in 1..Len(emb.requests) :
          Len(emb.requests[r]) \in 1..MAX_BATCH_SIZE
    /\ emb.failures > 0 \/ emb.pc = "rejected" =>
          emb.pc = "rejected" /\ emb.value = <<>>

\* generateEmbeddings has resolved a call that took more than one request
C18_Witness ==
    /\ emb.pc = "resolved"
    /\ ~emb.inBatches
    /\ Len(emb.requests) > 1
    /\ Len(emb.value) > MAX_BATCH_SIZE


\* a step of a query: its call, or what follows one of its awaits
QueryStep == qry' # qry /\ qry'.pc # "idle"

\* C19: no step of a query, whatever its outcome and whatever another query
\* does beside it, changes the passage map, the per-document lists or the
\* set of processed documents.
C19_QueryReadOnly ==
    [][QueryStep =>
          UNCHANGED <<embeddedChunks, pdfChunks, extractedPDFs>>]_vars

\* a compound query has returned after an error and an answer, while the
\* search of another query over the same processed documents had returned
C19_Witness ==
    /\ qry.pc = "answered"
    /\ \E i, j \in 1..Len(qry.answers) :
          qry.answers[i].kind = "error" /\ qry.answers[j].kind = "response"
    /\ srch.pc = "returned" /\ Len(srch.result) > 0
    /\ extractedPDFs # {}

\* a failure of the search (embedding the question) or of the completion for
\* a question of a compound query is kept as a section of kind "error"
HasCaughtFailure(answers) ==
    \E k \in 1..Len(answers) : answers[k].kind = "error"

AssistantMessages ==
    {k \in 1..Len(chat.appended) : chat.appended[k].type = "assistant"}

\* C20: a failure while querying aborts the query: when embedding the question
\* or the completion call has failed during query(question, pdfIds), query
\* does not return an Answer, and once handleSendMessage has finished it has
\* appended exactly one assistant message, the apology whenever the query
\* met a failure, and isProcessing is false again.
C20_FailureAbortsQuery ==
    /\ qry.pc = "answered" => ~HasCaughtFailure(qry.answers)
    /\ chat.pc = "idle" /\ chat.appended # <<>> =>
          /\ ~chat.isProcessing
          /\ Cardinality(AssistantMessages) = 1
          /\ \A k \in AssistantMessages :
                chat.appended[k].kind = "answer" =>
                    ~HasCaughtFailure(chat.appended[k].content)

\* C21: the "currently ingesting" signal is accurate: isProcessingPDFs is true
\* in every state in which a processMultiplePDFs call started by the chat
\* component (by the background effect or by the send handler) is in flight,
\* so that it becomes false only when none is.
C21_IngestingSignal ==
    (\E m \in Calls : calls[m].pc = "running") => chat.isProcessingPDFs

\* the documents with a processPDF pipeline in flight
DocsInFlight == {d \in Docs : InFlight(d)}

\* C22: at every moment at most 3 documents have an ingestion pipeline
\* (processPDF) in flight on the RAGService, whoever started the ingestions.
C22_BoundedIngestion == Cardinality(DocsInFlight) <= PdfBatchSize

\* a due timer fires: processSelectedPDFs runs with the selection of timer t
Fires(t) ==
    /\ t \in chat.timers
    /\ t.elapsed = DebounceTicks
    /\ chat'.timers = chat.timers \ {t}
    /\ chat'.selection = chat.selection

\* C23: every change of the selection cancels the pending trigger and
\* schedules a new one: at most one trigger is pending at any time, it holds
\* the current selection, and processSelectedPDFs runs (and starts an
\* ingestion) only for a selection that has stayed unchanged for the whole
\* debounce delay, never for an intermediate one.
C23_Debounce ==
    [][/\ Cardinality(chat'.timers) <= 1
       /\ \A t \in chat'.timers : t.selectedPDFs = chat'.selection
       /\ \A t \in chat.timers :
             Fires(t) => /\ t.selectedPDFs = chat.selection
                         /\ chat.sinceChange = DebounceTicks
       /\ chat'.awaiting # chat.awaiting /\ chat.awaiting \subseteq chat'.awaiting
             => \E t \in chat.timers :
                   /\ Fires(t)
                   /\ t.selectedPDFs = chat.selection
                   /\ \A m \in chat'.awaiting \ chat.awaiting :
                         Range(calls'[m].docs) \subseteq Range(chat.selection)]_vars

\* a background ingestion is under way for a selection that was changed, and
\* changed again to what it is, before the delay was over
C23_Witness ==
    /\ chat.cancelled
    /\ chat.awaiting # {}
    /\ \E m \in chat.awaiting :
          calls[m].pc = "running" /\ Range(calls[m].docs) = Range(chat.selection)
    /\ Len(chat.selection) = 1
    /\ chat.timers = {}

\* the processPDF promises pending for document d
PipelinesOf(d) ==
    {mp \in Calls \X (1..NumDocs) :
        /\ mp[2] <= Len(calls[mp[1]].docs)
        /\ calls[mp[1]].docs[mp[2]] = d
        /\ calls[mp[1]].st[mp[2]] \in {"extracting", "embedding"}}

\* C26: whatever the interleaving of the ingestion requests of the chat
\* component on the RAGService, the pipeline of a document is in flight at
\* most once at a time and a document's passage-id list never holds an id
\* twice (addChunks has run at most once for it).
C26_NoDuplicateWork ==
    \A d \in Docs :
        /\ Cardinality(PipelinesOf(d)) <= 1
        /\ d \in DOMAIN pdfChunks =>
              Cardinality(Range(pdfChunks[d])) = Len(pdfChunks[d])

\* generateResponse has returned for the current question: the step that
\* builds sources from the search results qry.found
CompletionStep ==
    /\ qry.pc = "completing"
    /\ Len(qry'.answers) = Len(qry.answers) + 1
    /\ qry'.answers[Len(qry'.answers)].kind = "response"

\* C24: in every Answer that query returns, the sources are in retrieval rank
\* order: the sources of a question are built one by one from its search
\* results, in their order (for a single question sources[i] is built from
\* the i-th result, and similarities do not increase along the list); every
\* source names the document and the passage of its result; and chunksUsed
\* equals the number of sources.
C24_SourceAttribution ==
    /\ [](qry.pc = "answered" =>
            /\ qry.chunksUsed = Len(qry.sources)
            /\ \A i \in 1..Len(qry.sources) :
                  /\ qry.sources[i].chunk[1] = qry.sources[i].pdfId
                  /\ qry.sources[i].pdfId \in Range(qry.pdfIds)
            /\ Len(qry.questions) = 1 =>
                  \A i \in 1..(Len(qry.sources) - 1) :
                     ~SimLess(qry.sources[i].similarity,
                              qry.sources[i + 1].similarity))
    /\ [][CompletionStep =>
            /\ Len(qry'.sources) = Len(qry.sources) + Len(qry.found)
            /\ SubSeq(qry'.sources, 1, Len(qry.sources)) = qry.sources
            /\ \A j \in 1..Len(qry.found) :
                  LET source == qry'.sources[Len(qry.sources) + j]
                  IN  /\ source.pdfId = qry.found[j].chunk.pdfId
                      /\ source.chunk = qry.found[j].chunk.id
                      /\ source.similarity = qry.found[j].similarity
            /\ Len(qry.questions) = 1 =>
                  qry.sources = <<>> /\ qry'.pc = "answered"]_vars

\* a single question has been answered from passages of both documents, the
\* first source more similar than the last
C24_Witness ==
    /\ qry.pc = "answered"
    /\ Len(qry.questions) = 1
    /\ Len(qry.sources) > 1
    /\ qry.sources[1].pdfId # qry.sources[Len(qry.sources)].pdfId
    /\ SimLess(qry.sources[Len(qry.sources)].similarity,
               qry.sources[1].similarity)

\* the search of the current question has returned
SearchStep ==
    /\ qry.pc = "searching"
    /\ qry'.pc = "completing"

\* the ids of the passages the responses of the sections were given, section
\* after section
RECURSIVE ContextsFrom(_, _)
ContextsFrom(answers, k) ==
    IF k > Len(answers) THEN <<>>
    ELSE (IF answers[k].kind = "response" THEN answers[k].context ELSE <<>>)
         \o ContextsFrom(answers, k + 1)

\* C25: with n > 1 sub-questions every sub-question is searched with
\* topK = ceil(maxChunks / n), which is at least 1 whatever maxChunks >= 1
\* and n; the chunksUsed of the aggregate Answer is the sum of the numbers of
\* results of the sub-questions, and its sources are the sources of the
\* sub-questions one after the other in sub-question order.
C25_SubQuestionBudget ==
    /\ \A mc \in 1..(maxChunks + 1), n \in 2..(maxChunks + MaxQuestions + 1) :
          /\ CeilDiv(mc, n) >= 1
          /\ CeilDiv(mc, n) * n >= mc
          /\ (CeilDiv(mc, n) - 1) * n < mc
    /\ [](qry.pc \in {"searching", "completing", "answered"}
          /\ Len(qry.questions) > 1 =>
             LET contexts == ContextsFrom(qry.answers, 1)
             IN  /\ qry.chunksUsed = Len(contexts)
                 /\ Len(qry.sources) = Len(contexts)
                 /\ \A i \in 1..Len(contexts) :
                       qry.sources[i].chunk = contexts[i])
    /\ [][SearchStep /\ Len(qry.questions) > 1 =>
            qry'.found =
               SearchResults(EmbeddingOfText(qry.questions[qry.i]), qry.pdfIds,
                             (maxChunks + Len(qry.questions) - 1)
                                \div Len(qry.questions))]_vars

\* a compound question of two has been answered: the first sub-question
\* with ceil(5 / 2) = 3 passages, the second with fewer
C25_Witness ==
    /\ qry.pc = "answered"
    /\ Len(qry.questions) = 2
    /\ qry.answers[1].kind = "response" /\ Len(qry.answers[1].context) = 3
    /\ qry.answers[2].kind = "response" /\ Len(qry.answers[2].context) < 3
    /\ qry.chunksUsed = Len(qry.answers[1].context) + Len(qry.answers[2].context)

\* the positions of the list whose processPDF has been started
Started(c) == {p \in 1..Len(c.docs) : c.st[p] # "queued"}

\* C27: processMultiplePDFs(docs) starts processPDF once for every document
\* of docs, in consecutive batches of at most 3 taken in list order; a batch
\* is started only when every processPDF of the batches before it has
\* settled; and the call resolves, provided every remote call returns.
C27_BatchedIngestion ==
    /\ [](calls[1].pc = "running" =>
            LET c == calls[1]
            IN  /\ (c.i - 1) % PdfBatchSize = 0
                /\ Started(c) = 1..Min(c.i + PdfBatchSize - 1, Len(c.docs))
                /\ \A p \in 1..(c.i - 1) : c.st[p] \in Settled
                /\ Cardinality({p \in Started(c) : c.st[p] \notin Settled})
                      <= PdfBatchSize)
    /\ [][calls[1].pc = "running" =>
            /\ calls'[1].pc = "running" =>
                  /\ calls'[1].docs = calls[1].docs
                  /\ \A p \in Started(calls[1]) : calls'[1].st[p] # "queued"
                  /\ \A p \in 1..Len(calls[1].docs) :
                        calls[1].st[p] \in Settled
                        => calls'[1].st[p] = calls[1].st[p]
            /\ calls'[1].pc # "running" =>
                  /\ calls'[1].pc = "idle"
                  /\ Started(calls[1]) = 1..Len(calls[1].docs)
                  /\ \A p \in 1..Len(calls[1].docs) :
                        calls[1].st[p] \in Settled]_vars
    /\ (calls[1].pc = "running") ~> (calls[1].pc = "idle")

\* a call on four documents is in its second batch, after a first batch in
\* which a document was rejected and another one added
C27_Witness ==
    /\ calls[1].pc = "running"
    /\ Len(calls[1].docs) = PdfBatchSize + 1
    /\ calls[1].i = PdfBatchSize + 1
    /\ calls[1].st[PdfBatchSize + 1] = "extracting"
    /\ \E p, q \in 1..PdfBatchSize :
          calls[1].st[p] = "rejected" /\ calls[1].st[q] = "added"

\* C28: the completion service is never called without grounding context:
\* for a single question and for every sub-question of a compound one,
\* generateResponse is awaited only with the passages, at least one, that the
\* search of that question has just returned; when the search returns
\* nothing the answer is produced locally and no completion is requested.
C28_CompletionIsGrounded ==
    /\ [](qry.pc = "completing" => Len(qry.found) > 0)
    /\ [][/\ qry'.pc = "completing" /\ qry' # qry =>
                /\ qry.pc = "searching"
                /\ qry'.i = qry.i
                /\ qry'.found =
                      SearchResults(EmbeddingOfText(qry.questions[qry.i]),
                                    qry.pdfIds, QueryTopK(Len(qry.questions)))
          /\ qry.pc = "searching" /\ qry' # qry /\ qry'.pc # "rejected"
             /\ SearchResults(EmbeddingOfText(qry.questions[qry.i]),
                              qry.pdfIds, QueryTopK(Len(qry.questions))) = <<>>
             /\ Len(qry'.answers) > Len(qry.answers) =>
                /\ qry'.pc # "completing"
                /\ qry'.answers[Len(qry'.answers)].kind
                      \in {"noInfo", "noInfoDebug", "error"}]_vars

\* a compound query whose first sub-question found nothing, and was answered
\* locally, awaits the completion for its second one
C28_Witness ==
    /\ qry.pc = "completing"
    /\ qry.i = 2
    /\ qry.answers[1].kind = "noInfo"
    /\ Len(qry.found) > 0

(***************************************************************************)
(* C29: importData(exportData()) gives an index with the same stats and    *)
(* the same search results for every query vector, document list and topK, *)
(* and the object exportData returned holds what it held when it was       *)
(* returned, whatever addChunks and removePDF did to the store since.      *)
(***************************************************************************)
RoundTrip == StoreAfterImport(ExportedData(<<embeddedChunks, pdfChunks>>))

C29_SnapshotRoundTrip ==
    /\ StatsOf(RoundTrip) = getStats
    /\ \A q \in QueryVecs, ids \in PdfIdLists, k \in 1..MaxTopK :
          SearchIn(RoundTrip, q, ids, k) = SearchResults(q, ids, k)
    /\ snap.taken => snap.data = snap.exported

(***************************************************************************)
(* C30: a document that isPDFProcessed does not report has no passage in   *)
(* the index and no chunk-id list, also while a processPDF of it is in     *)
(* flight and a removePDF of it has run in between.                        *)
(***************************************************************************)
C30_IndexedAreProcessed ==
    \A d \in Docs :
        ~isPDFProcessed(d)
        => /\ PassagesOf(embeddedChunks, d) = <<>>
           /\ d \notin DOMAIN pdfChunks

=============================================================================
